---- MODULE Spec2Model ----
(***************************************************************************)
(* The concentration chart of the products dashboard: the ConcentrationChart *)
(* component (its time-range state, getTimeRange, the chartData memo and    *)
(* calculateConcentration) driven by the products and quantities lists of   *)
(* MedicationDashboard.                                                     *)
(*                                                                          *)
(* Time is counted in whole seconds from an arbitrary epoch (the code       *)
(* counts milliseconds; every instant the model uses is a whole second, and *)
(* the 59.999 s that a custom range puts on its end is kept as 59 s, which  *)
(* decides every comparison of the code the same way because the sample     *)
(* times of a custom range are whole seconds).                              *)
(*                                                                          *)
(* A JavaScript number that holds a concentration, an amount, a half-life   *)
(* or an elapsed time is a binary floating-point value m * 2^e with the     *)
(* exponent range of binary64 and a significand of Precision bits, every    *)
(* operation rounding to nearest, ties to even.  Instants are integers.     *)
(***************************************************************************)
EXTENDS Integers, Sequences, FiniteSets, Bags

(***************************************************************************)
(* Floating point.                                                          *)
(***************************************************************************)

\* Bits of the significand (53 in binary64).
Precision == 11

\* 2^EMin is the smallest positive value (binary64: 2^-1074).
EMin == -1074

\* Every finite value is below 2^EMaxBits (binary64: 2^1024).
EMaxBits == 1024

\* Exponent field of the two special values.
ESpecial == 2000

Zero == [m |-> 0, e |-> 0]
NaN == [m |-> 0, e |-> ESpecial]
PosInf == [m |-> 1, e |-> ESpecial]
NegInf == [m |-> -1, e |-> ESpecial]

IsNaN(x) == x = NaN
IsInf(x) == x.e = ESpecial /\ x.m # 0
IsFinite(x) == x.e # ESpecial

Abs(n) == IF n < 0 THEN -n ELSE n
Sgn(n) == IF n < 0 THEN -1 ELSE IF n > 0 THEN 1 ELSE 0
Max2(a, b) == IF a >= b THEN a ELSE b
Min2(a, b) == IF a <= b THEN a ELSE b

\* The number of bits of n, for 0 <= n < 2^31.
BitLen4(n) == IF n < 4 THEN (IF n < 2 THEN n ELSE 2) ELSE (IF n < 8 THEN 3 ELSE 4)
BitLen8(n) == IF n < 16 THEN BitLen4(n) ELSE 4 + BitLen4(n \div 16)
BitLen16(n) == IF n < 256 THEN BitLen8(n) ELSE 8 + BitLen8(n \div 256)
BitLen(n) == IF n < 65536 THEN BitLen16(n) ELSE 16 + BitLen16(n \div 65536)

\* The canonical form of m * 2^e: an odd m, or Zero.
RECURSIVE Canon(_, _)
Canon(m, e) ==
    IF m = 0 THEN Zero
    ELSE IF m % 16 = 0 THEN Canon(m \div 16, e + 4)
    ELSE IF m % 2 = 0 THEN Canon(m \div 2, e + 1)
    ELSE [m |-> m, e |-> e]

\* n * 2^e rounded to the nearest representable value, ties to even, with
\* gradual underflow below 2^(EMin + Precision - 1) and overflow to infinity.
Round(n, e) ==
    IF n = 0 THEN Zero
    ELSE LET a == Abs(n)
             s == Max2(0, Max2(BitLen(a) - Precision, EMin - e))
         IN  IF s >= 31 THEN Zero
             ELSE LET q == a \div (2 ^ s)
                      r == a % (2 ^ s)
                      up == /\ s > 0
                            /\ \/ 2 * r > 2 ^ s
                               \/ 2 * r = 2 ^ s /\ q % 2 = 1
                      m1 == IF up THEN q + 1 ELSE q
                  IN  IF m1 = 0 THEN Zero
                      ELSE IF BitLen(m1) + e + s > EMaxBits
                      THEN (IF n < 0 THEN NegInf ELSE PosInf)
                      ELSE Canon(Sgn(n) * m1, e + s)

\* (n / d) * 2^e rounded, for integers n and d # 0 with d below 2^15.
RoundQuot(n, d, e) ==
    IF n = 0 THEN Zero
    ELSE LET k == 29 - BitLen(Abs(n))
             a == Abs(n) * (2 ^ k)
             q == a \div Abs(d)
             r == a % Abs(d)
         IN  Round(Sgn(n) * Sgn(d) * (2 * q + (IF r = 0 THEN 0 ELSE 1)), e - k - 1)

\* The number a decimal literal with one fractional digit parses to.
FromTenths(t) == RoundQuot(t, 10, 0)

Neg(x) == IF IsNaN(x) THEN NaN ELSE [m |-> -x.m, e |-> x.e]

Mul(x, y) ==
    IF IsNaN(x) \/ IsNaN(y) THEN NaN
    ELSE IF IsInf(x) \/ IsInf(y)
    THEN (IF x.m = 0 \/ y.m = 0 THEN NaN
          ELSE IF Sgn(x.m) * Sgn(y.m) < 0 THEN NegInf ELSE PosInf)
    ELSE Round(x.m * y.m, x.e + y.e)

Div(x, y) ==
    IF IsNaN(x) \/ IsNaN(y) THEN NaN
    ELSE IF IsInf(x) THEN (IF IsInf(y) THEN NaN
                           ELSE IF Sgn(x.m) * (IF y.m < 0 THEN -1 ELSE 1) < 0
                           THEN NegInf ELSE PosInf)
    ELSE IF IsInf(y) THEN Zero
    ELSE IF y.m = 0 THEN (IF x.m = 0 THEN NaN
                          ELSE IF x.m < 0 THEN NegInf ELSE PosInf)
    ELSE RoundQuot(x.m, y.m, x.e - y.e)

\* The significand shifted up to Precision bits, with its exponent.
NormM(x) == x.m * (2 ^ (Precision - BitLen(Abs(x.m))))
NormE(x) == x.e - (Precision - BitLen(Abs(x.m)))

Add(x, y) ==
    IF IsNaN(x) \/ IsNaN(y) THEN NaN
    ELSE IF IsInf(x) THEN (IF IsInf(y) /\ x.m # y.m THEN NaN ELSE x)
    ELSE IF IsInf(y) THEN y
    ELSE IF x.m = 0 THEN y
    ELSE IF y.m = 0 THEN x
    ELSE LET ex == NormE(x)
             ey == NormE(y)
             big == IF ex >= ey THEN x ELSE y
             small == IF ex >= ey THEN y ELSE x
             d == Abs(ex - ey)
         IN  IF d > Precision + 2
             THEN Round(4 * NormM(big) + Sgn(small.m), Max2(ex, ey) - 2)
             ELSE Round(NormM(big) * (2 ^ d) + NormM(small), Min2(ex, ey))

\* x < y and x <= y, exactly (a difference of two values never underflows);
\* false when either is NaN.
Lt(x, y) ==
    /\ ~IsNaN(x) /\ ~IsNaN(y)
    /\ x # y
    /\ Add(x, Neg(y)).m < 0
Leq(x, y) ==
    /\ ~IsNaN(x) /\ ~IsNaN(y)
    /\ (x = y \/ Add(x, Neg(y)).m < 0)

\* The sum stored as it is, without Math.max(0, ...).
MathMaxNone(x) == x

\* Math.max(0, x).
MathMax0(x) == IF IsNaN(x) THEN NaN ELSE IF x.m < 0 THEN Zero ELSE x

\* Math.log(2): ln 2 = 744261118 * 2^-30 to thirty bits.
MathLog2 == Round(744261118, -30)

(***************************************************************************)
(* Math.exp: e^x to within one unit in the last place, exact at 0 and       *)
(* monotone.  x / ln 2 is split into an integer n and a fraction f in       *)
(* [0, 1), both from a 15-bit fixed-point quotient, and 2^f = e^(f ln 2) is *)
(* summed from its Taylor series in 15-bit fixed point.                     *)
(***************************************************************************)

\* 1 / ln 2 = (InvLn2Hi * 2^13 + InvLn2Lo) * 2^-24.
InvLn2Hi == 2954
InvLn2Lo == 5238

\* ln 2 in units of 2^-15.
Ln2Q15 == 22713

ExpTerms == 8

\* floor(|x| / ln 2 * 2^15) for a finite x with |x| < 2^11.
AbsOverLn2Q15(x) ==
    LET ax == Abs(x.m)
        A == ax * InvLn2Hi
        B == ax * InvLn2Lo
        s == x.e - 9
    IN  IF s >= 0 THEN A * (2 ^ (13 + s)) + B * (2 ^ s)
        ELSE IF s >= -13 THEN A * (2 ^ (13 + s)) + (B \div (2 ^ (-s)))
        ELSE IF -s - 13 >= 31 THEN 0
        ELSE (A + (B \div (2 ^ 13))) \div (2 ^ (-s - 13))

\* e^(g * 2^-15) in units of 2^-15, by Horner's rule from term k up.
RECURSIVE ExpSeries(_, _)
ExpSeries(g, k) ==
    IF k > ExpTerms THEN 32768
    ELSE 32768 + ((g * ExpSeries(g, k + 1)) \div (k * 32768))

MathExp(x) ==
    IF IsNaN(x) THEN NaN
    ELSE IF IsInf(x) THEN (IF x.m < 0 THEN Zero ELSE PosInf)
    ELSE IF x.m = 0 THEN Round(1, 0)
    ELSE IF BitLen(Abs(x.m)) + x.e > 11
    THEN (IF x.m < 0 THEN Zero ELSE PosInf)
    ELSE LET y == AbsOverLn2Q15(x)
             t == IF x.m < 0 THEN -y ELSE y
             n == t \div 32768
             f == t % 32768
             g == (f * Ln2Q15) \div 32768
         IN  Round(ExpSeries(g, 1), n - 15)

(***************************************************************************)
(* The chart.                                                               *)
(***************************************************************************)

\* Seconds in an hour (the code's 60 * 60 * 1000 milliseconds).
Hour == 3600

\* Seconds in a day.
Day == 86400

(***************************************************************************)
(* The text of a form field is the sequence of its characters.              *)
(***************************************************************************)

IsDigit(c) == c \in {"0", "1", "2", "3", "4", "5", "6", "7", "8", "9"}
DigitValue(c) ==
    CASE c = "0" -> 0 [] c = "1" -> 1 [] c = "2" -> 2 [] c = "3" -> 3
      [] c = "4" -> 4 [] c = "5" -> 5 [] c = "6" -> 6 [] c = "7" -> 7
      [] c = "8" -> 8 [] c = "9" -> 9

\* String.prototype.trim, for fields whose only white space is the blank.
RECURSIVE trimStart(_)
trimStart(text) ==
    IF text # <<>> /\ text[1] = " " THEN trimStart(Tail(text)) ELSE text
RECURSIVE trimEnd(_)
trimEnd(text) ==
    IF text # <<>> /\ text[Len(text)] = " "
    THEN trimEnd(SubSeq(text, 1, Len(text) - 1)) ELSE text
trim(text) == trimEnd(trimStart(text))

\* The number of digits text begins with, and the number they write.
RECURSIVE DigitsAhead(_)
DigitsAhead(text) ==
    IF text # <<>> /\ IsDigit(text[1]) THEN 1 + DigitsAhead(Tail(text)) ELSE 0
RECURSIVE DigitsNumber(_, _)
DigitsNumber(text, n) ==
    IF n = 0 THEN 0 ELSE 10 * DigitsNumber(text, n - 1) + DigitValue(text[n])

\* parseFloat for decimal text without an exponent: white space, a sign,
\* digits, a point and digits are read and what follows is ignored; NaN when
\* no digit is read.
parseFloat(text) ==
    LET t == trimStart(text)
        signed == t # <<>> /\ t[1] \in {"-", "+"}
        u == IF signed THEN Tail(t) ELSE t
        ni == DigitsAhead(u)
        v == SubSeq(u, ni + 1, Len(u))
        pointed == v # <<>> /\ v[1] = "."
        w == IF pointed THEN Tail(v) ELSE <<>>
        nf == DigitsAhead(w)
        n == DigitsNumber(u, ni) * (10 ^ nf) + DigitsNumber(w, nf)
    IN  IF ni + nf = 0 THEN NaN
        ELSE RoundQuot(IF signed /\ t[1] = "-" THEN -n ELSE n, 10 ^ nf, 0)


\* calculateConcentration with lambda = 1 / halfLife, the ln 2 forgotten.
calculateConcentrationNoLog(initialAmount, halfLife, timeElapsed) ==
    LET lambda == Div(Round(1, 0), halfLife)
    IN  Mul(initialAmount, MathExp(Mul(Neg(lambda), timeElapsed)))

\* calculateConcentration with the sign of the exponent lost.
calculateConcentrationGrowth(initialAmount, halfLife, timeElapsed) ==
    LET lambda == Div(MathLog2, halfLife)
    IN  Mul(initialAmount, MathExp(Mul(lambda, timeElapsed)))

\* const calculateConcentration = (initialAmount, halfLife, timeElapsed)
calculateConcentration(initialAmount, halfLife, timeElapsed) ==
    LET lambda == Div(MathLog2, halfLife)
    IN  Mul(initialAmount, MathExp(Mul(Neg(lambda), timeElapsed)))

\* The three presets reach this many hours back and ahead of now.
DayHalfSpan == 12
WeekHalfSpan == 84
MonthHalfSpan == 360

\* getTimeRange with a custom range that runs from its start date to twelve
\* hours after the current instant.
getTimeRangeCustomToNow(tr, csd, ced, cst, cet, nowv) ==
    LET week == [start |-> nowv - WeekHalfSpan * Hour,
                 end |-> nowv + WeekHalfSpan * Hour, valid |-> TRUE]
    IN  CASE tr = "day" ->
               [start |-> nowv - DayHalfSpan * Hour,
                end |-> nowv + DayHalfSpan * Hour, valid |-> TRUE]
          [] tr = "week" -> week
          [] tr = "month" ->
               [start |-> nowv - MonthHalfSpan * Hour,
                end |-> nowv + MonthHalfSpan * Hour, valid |-> TRUE]
          [] tr = "custom" ->
               IF csd # <<>> /\ ced # <<>>
               THEN IF cst = <<>> \/ cet = <<>>
                    THEN [start |-> 0, end |-> 0, valid |-> FALSE]
                    ELSE [start |-> csd[1] * Day + cst[1] * Hour + cst[2] * 60,
                          end |-> nowv + DayHalfSpan * Hour,
                          valid |-> TRUE]
               ELSE week
          [] OTHER -> week

\* getTimeRange with the week that ends at the current instant.
getTimeRangeWeekBack(tr, csd, ced, cst, cet, nowv) ==
    LET week == [start |-> nowv - 2 * WeekHalfSpan * Hour,
                 end |-> nowv, valid |-> TRUE]
    IN  CASE tr = "day" ->
               [start |-> nowv - DayHalfSpan * Hour,
                end |-> nowv + DayHalfSpan * Hour, valid |-> TRUE]
          [] tr = "week" -> week
          [] tr = "month" ->
               [start |-> nowv - MonthHalfSpan * Hour,
                end |-> nowv + MonthHalfSpan * Hour, valid |-> TRUE]
          [] tr = "custom" ->
               IF csd # <<>> /\ ced # <<>>
               THEN IF cst = <<>> \/ cet = <<>>
                    THEN [start |-> 0, end |-> 0, valid |-> FALSE]
                    ELSE [start |-> csd[1] * Day + cst[1] * Hour + cst[2] * 60,
                          end |-> ced[1] * Day + cet[1] * Hour + cet[2] * 60 + 59,
                          valid |-> TRUE]
               ELSE week
          [] OTHER -> week

\* A date picked in the calendar is <<d>> (midnight of day d), none is <<>>;
\* a time field is <<h, m>>, a cleared one <<>>.
getTimeRange(tr, csd, ced, cst, cet, nowv) ==
    LET week == [start |-> nowv - WeekHalfSpan * Hour,
                 end |-> nowv + WeekHalfSpan * Hour, valid |-> TRUE]
    IN  CASE tr = "day" ->
               [start |-> nowv - DayHalfSpan * Hour,
                end |-> nowv + DayHalfSpan * Hour, valid |-> TRUE]
          [] tr = "week" -> week
          [] tr = "month" ->
               [start |-> nowv - MonthHalfSpan * Hour,
                end |-> nowv + MonthHalfSpan * Hour, valid |-> TRUE]
          [] tr = "custom" ->
               IF csd # <<>> /\ ced # <<>>
               THEN IF cst = <<>> \/ cet = <<>>
                    THEN [start |-> 0, end |-> 0, valid |-> FALSE]
                    ELSE [start |-> csd[1] * Day + cst[1] * Hour + cst[2] * 60,
                          end |-> ced[1] * Day + cet[1] * Hour + cet[2] * 60 + 59,
                          valid |-> TRUE]
               ELSE week
          [] OTHER -> week

\* intervalHours with both comparisons strict.
intervalHoursExclusive(span) ==
    IF span < 24 * Hour THEN 1
    ELSE IF span < 168 * Hour THEN 2
    ELSE 6

\* intervalHours with one-hour steps up to a week.
intervalHoursHourly(span) ==
    IF span <= 168 * Hour THEN 1
    ELSE 6

\* The interval, in hours, for a window of span seconds.
intervalHours(span) ==
    IF span <= 24 * Hour THEN 1
    ELSE IF span <= 168 * Hour THEN 2
    ELSE 6

\* The loop runs at most 2^LoopBits times in the model.
LoopBits == 8

\* The loop with the test time < end.
RECURSIVE loopTimesExclusive(_, _, _, _)
loopTimesExclusive(time, end, step, k) ==
    IF k = 0 THEN (IF time < end THEN <<time>> ELSE <<>>)
    ELSE LET first == loopTimesExclusive(time, end, step, k - 1)
         IN  IF Len(first) < 2 ^ (k - 1) THEN first
             ELSE first \o loopTimesExclusive(first[Len(first)] + step, end, step, k - 1)

\* The loop without time += intervalHours * 60 * 60 * 1000: it is left only
\* when the bound on its passes is reached.
RECURSIVE loopTimesStuck(_, _, _, _)
loopTimesStuck(time, end, step, k) ==
    IF time > end THEN <<>>
    ELSE IF k = 0 THEN <<time>>
    ELSE loopTimesStuck(time, end, step, k - 1)
             \o loopTimesStuck(time, end, step, k - 1)

\* for (let time = start; time <= end; time += step): the times of at most
\* 2^k iterations that begin at time.  The second half of the iterations
\* begins one step after the last time of the first half.
RECURSIVE loopTimes(_, _, _, _)
loopTimes(time, end, step, k) ==
    IF k = 0 THEN (IF time <= end THEN <<time>> ELSE <<>>)
    ELSE LET first == loopTimes(time, end, step, k - 1)
         IN  IF Len(first) < 2 ^ (k - 1) THEN first
             ELSE first \o loopTimes(first[Len(first)] + step, end, step, k - 1)

timePoints(start, end, step) == loopTimes(start, end, step, LoopBits)

\* The forEach without the test hoursElapsed >= 0.
RECURSIVE totalConcentrationAnyTime(_, _, _, _)
totalConcentrationAnyTime(product, qs, time, n) ==
    IF n = 0 THEN Zero
    ELSE LET before == totalConcentrationAnyTime(product, qs, time, n - 1)
             quantity == qs[n]
         IN  IF quantity.productId = product.id
             THEN Add(before,
                      calculateConcentration(quantity.amount, product.halfLife,
                          RoundQuot(time - quantity.timestamp, Hour, 0)))
             ELSE before

\* The forEach with the test hoursElapsed > 0.
RECURSIVE totalConcentrationStrictlyAfter(_, _, _, _)
totalConcentrationStrictlyAfter(product, qs, time, n) ==
    IF n = 0 THEN Zero
    ELSE LET before == totalConcentrationStrictlyAfter(product, qs, time, n - 1)
             quantity == qs[n]
         IN  IF quantity.productId = product.id /\ time - quantity.timestamp > 0
             THEN Add(before,
                      calculateConcentration(quantity.amount, product.halfLife,
                          RoundQuot(time - quantity.timestamp, Hour, 0)))
             ELSE before

\* The forEach assigning each contribution instead of adding it.
RECURSIVE totalConcentrationLast(_, _, _, _)
totalConcentrationLast(product, qs, time, n) ==
    IF n = 0 THEN Zero
    ELSE LET before == totalConcentrationLast(product, qs, time, n - 1)
             quantity == qs[n]
         IN  IF quantity.productId = product.id /\ time - quantity.timestamp >= 0
             THEN calculateConcentration(quantity.amount, product.halfLife,
                      RoundQuot(time - quantity.timestamp, Hour, 0))
             ELSE before

\* The forEach without the test quantity.productId === product.id.
RECURSIVE totalConcentrationAnyProduct(_, _, _, _)
totalConcentrationAnyProduct(product, qs, time, n) ==
    IF n = 0 THEN Zero
    ELSE LET before == totalConcentrationAnyProduct(product, qs, time, n - 1)
             quantity == qs[n]
         IN  IF time - quantity.timestamp >= 0
             THEN Add(before,
                      calculateConcentration(quantity.amount, product.halfLife,
                          RoundQuot(time - quantity.timestamp, Hour, 0)))
             ELSE before

\* totalConcentration after the forEach has visited the first n quantities.
RECURSIVE totalConcentration(_, _, _, _)
totalConcentration(product, qs, time, n) ==
    IF n = 0 THEN Zero
    ELSE LET before == totalConcentration(product, qs, time, n - 1)
             quantity == qs[n]
         IN  IF quantity.productId = product.id /\ time - quantity.timestamp >= 0
             THEN Add(before,
                      calculateConcentration(quantity.amount, product.halfLife,
                          RoundQuot(time - quantity.timestamp, Hour, 0)))
             ELSE before

\* The last product of the list with this id: a later write to
\* dataPoint[product.id] replaces an earlier one.
LastWithId(ps, id) ==
    ps[CHOOSE i \in 1..Len(ps) :
          /\ ps[i].id = id
          /\ \A j \in (i + 1)..Len(ps) : ps[j].id # id]

\* The data point with an entry only for the products some quantity names.
dataPointOfDosed(time, ps, qs) ==
    [time |-> time,
     conc |-> [id \in {ps[i].id : i \in 1..Len(ps)} \cap
                      {qs[j].productId : j \in 1..Len(qs)} |->
                 MathMax0(totalConcentration(LastWithId(ps, id), qs, time, Len(qs)))]]

dataPoint(time, ps, qs) ==
    [time |-> time,
     conc |-> [id \in {ps[i].id : i \in 1..Len(ps)} |->
                 MathMax0(totalConcentration(LastWithId(ps, id), qs, time, Len(qs)))]]

\* The memo returning early only when both lists are empty.
chartDataOfBothEmpty(ps, qs, tr, csd, ced, cst, cet, nowv) ==
    IF Len(ps) = 0 /\ Len(qs) = 0 THEN <<>>
    ELSE LET range == getTimeRange(tr, csd, ced, cst, cet, nowv)
         IN  IF ~range.valid THEN <<>>
             ELSE LET times == timePoints(range.start, range.end,
                                  intervalHours(range.end - range.start) * Hour)
                  IN  [i \in 1..Len(times) |-> dataPoint(times[i], ps, qs)]

\* The value of the chartData memo when it is computed at nowv.
chartDataOf(ps, qs, tr, csd, ced, cst, cet, nowv) ==
    IF Len(ps) = 0 \/ Len(qs) = 0 THEN <<>>
    ELSE LET range == getTimeRange(tr, csd, ced, cst, cet, nowv)
         IN  IF ~range.valid THEN <<>>
             ELSE LET times == timePoints(range.start, range.end,
                                  intervalHours(range.end - range.start) * Hour)
                  IN  [i \in 1..Len(times) |-> dataPoint(times[i], ps, qs)]

(***************************************************************************)
(* The dashboard's two lists and the chart component that is given them.    *)
(* The chart stays mounted (the chart tab stays selected) while the         *)
(* dashboard's requests complete; the store is empty when the dashboard     *)
(* mounts.                                                                  *)
(***************************************************************************)

VARIABLES
    products,           \* MedicationDashboard's products, the chart's prop
    quantities,         \* MedicationDashboard's quantities, the chart's prop
    stored,             \* what this session wrote to the store:
                        \* [products |-> rows, quantities |-> n]
    loading,            \* the mount-time requests not yet answered
    timeRange,          \* "day", "week", "month" or "custom"
    customStartDate,    \* <<>> or <<day>>
    customEndDate,      \* <<>> or <<day>>
    customStartTime,    \* <<hour, minute>> or <<>>
    customEndTime,      \* <<hour, minute>> or <<>>
    now,                \* what new Date() returns
    rendered,           \* what the chartData memo was last computed from
    visibleProducts,    \* the chart's set of ids whose line is drawn
    toast,              \* the title of the last toast, "" before the first
    submitted,          \* the last form submission and whether it reached
                        \* the dashboard's handler
    user,               \* AuthProvider's user: NoUser or [email, canEdit]
    session,            \* AuthProvider's session: 0 for null, else the user id
    authLoading,        \* AuthProvider's loading
    authSession,        \* the session the auth client holds: 0 or a user id
    authRevision,       \* which AuthProvider runs: "local" keeps the
                        \* administrator's password itself and login answers
                        \* with a boolean; "awaited" and "deferred" sign in
                        \* with the auth client and login answers with a
                        \* promise, the listener fetching the profile in its
                        \* callback ("awaited") or from a timer ("deferred")
    timers,             \* the bag of user ids of the setTimeout calls not
                        \* yet run
    fetches,            \* the bag of profile requests in flight
    sessionCheck,       \* getSession() has not been answered yet
    passwords,          \* the password of each account
    loginOpen,          \* the dashboard's loginOpen: the login dialog is open
    db,                 \* the database: its tables, those with row-level
                        \* security, its policies and its triggers
    applied,            \* how many statements of the migrations are applied
    profiles,           \* the row of public.profiles of each account, or
                        \* NoProfile
    answers             \* the answers of the store to inserts that the
                        \* dashboard has not received yet

authVars == <<user, session, authLoading, authSession, authRevision, timers,
              fetches, sessionCheck, passwords, loginOpen>>

dbVars == <<db, applied, profiles>>

vars == <<products, quantities, stored, loading, timeRange, customStartDate,
          customEndDate, customStartTime, customEndTime, now, rendered,
          visibleProducts, toast, submitted, authVars, dbVars,
          answers>>

\* The instant of the run, and the instants a quantity can carry: eight days
\* before it (on the six-hour grid of the month view), the instant itself, and
\* sixteen days after it (later than the end of every window).
Now0 == 400 * Hour
EarlyDose == Now0 - 192 * Hour
LateDose == Now0 + 384 * Hour

\* The ids the store hands out, in this order.
ProductIds == {1, 2}
QuantityIds == {1, 2}

\* What the forms submit: half-lives of 24 and 0.5 hours; 20 mg or 0.3 mg
\* eight days ago, 20 mg now.
HalfLives == {FromTenths(240), FromTenths(5)}
QuantityInputs ==
    {[amount |-> FromTenths(200), timestamp |-> EarlyDose],
     [amount |-> FromTenths(3), timestamp |-> EarlyDose],
     [amount |-> FromTenths(200), timestamp |-> Now0]}

TimeRangePresets == {"day", "week", "month", "custom"}
CustomStartDays == {16}
CustomEndDays == {16, 17}
CustomStartTimes == {<<0, 0>>, <<12, 30>>, <<>>}
CustomEndTimes == {<<23, 59>>, <<6, 0>>}

PRODUCT_COLORS ==
    <<"#4f46e5", "#059669", "#dc2626", "#d97706",
      "#7c3aed", "#0891b2", "#be185d", "#65a30d">>

IdsOf(list) == {list[i].id : i \in 1..Len(list)}

\* The dependencies of the chartData memo, with the instant of the render.
Deps(ps, qs, tr, csd, ced, cst, cet) ==
    [products |-> ps, quantities |-> qs, timeRange |-> tr,
     customStartDate |-> csd, customEndDate |-> ced,
     customStartTime |-> cst, customEndTime |-> cet, now |-> now]

\* const chartData = useMemo(...): the value computed from what was rendered.
chartData ==
    chartDataOf(rendered.products, rendered.quantities, rendered.timeRange,
                rendered.customStartDate, rendered.customEndDate,
                rendered.customStartTime, rendered.customEndTime, rendered.now)

\* No form has been submitted yet.
NoSubmission == [form |-> "none"]

\* useState<AuthUser | null>(null)
NoUser == [none |-> TRUE]

\* The accounts: the id of each, its e-mail and the password it starts with.
\* The first is the administrator's.
ADMIN_EMAIL == "andresfelipeuribe11@gmail.com"
UserIds == {1, 2}
EmailOf == <<ADMIN_EMAIL, "visitante@example.com">>
ADMIN_PASSWORD == <<"1", "2", "3", "4", "5", "6", "7", "8", "9">>
VisitorPassword == <<"v", "i", "s", "i", "t", "a">>

\* ---------------------------------------------------------------------------
\* The database: the statements of the migrations in the order they were
\* applied, row-level security, and the profiles.

CreateTable(m, t) == [m |-> m, op |-> "create table", table |-> t]
EnableRls(m, t) == [m |-> m, op |-> "enable rls", table |-> t]
CreatePolicy(m, name, t, cmd, who) ==
    [m |-> m, op |-> "create policy", name |-> name, table |-> t,
     cmd |-> cmd, who |-> who]
DropPolicy(m, name, t, ifExists) ==
    [m |-> m, op |-> "drop policy", name |-> name, table |-> t,
     ifExists |-> ifExists]
RenameTable(m, from, to) ==
    [m |-> m, op |-> "rename table", table |-> from, to |-> to]
CreateTrigger(m, name) == [m |-> m, op |-> "create trigger", name |-> name]

\* Migration 1: the tables, with public reading and authenticated writing.
CreateTables ==
    <<CreateTable(1, "medications"),
      CreateTable(1, "doses"),
      EnableRls(1, "medications"),
      EnableRls(1, "doses"),
      CreatePolicy(1, "Anyone can view medications", "medications",
                   "SELECT", "true"),
      CreatePolicy(1, "Anyone can view doses", "doses", "SELECT", "true"),
      CreatePolicy(1, "Only authenticated users can manage medications",
                   "medications", "ALL", "auth.uid() IS NOT NULL"),
      CreatePolicy(1, "Only authenticated users can manage doses", "doses",
                   "ALL", "auth.uid() IS NOT NULL")>>

\* Migration 2: doses are read by authenticated users only.
RestrictDoseReads ==
    <<DropPolicy(2, "Anyone can view doses", "doses", TRUE),
      CreatePolicy(2, "Only authenticated users can view doses", "doses",
                   "SELECT", "auth.uid() IS NOT NULL")>>

\* Migration 3: doses are public again; the profiles and their trigger.
RevertAndAddProfiles ==
    <<DropPolicy(3, "Only authenticated users can view doses", "doses", TRUE),
      CreatePolicy(3, "Anyone can view doses", "doses", "SELECT", "true"),
      CreateTable(3, "profiles"),
      EnableRls(3, "profiles"),
      CreatePolicy(3, "Anyone can view profiles", "profiles", "SELECT",
                   "true"),
      CreatePolicy(3, "Users can update own profile", "profiles", "UPDATE",
                   "auth.uid() = id"),
      CreateTrigger(3, "on_auth_user_created")>>

\* Migration 4: a profile is read by its owner; one policy per command for
\* writing.
SplitPolicies ==
    <<DropPolicy(4, "Anyone can view profiles", "profiles", TRUE),
      CreatePolicy(4, "Users can view their own profile", "profiles",
                   "SELECT", "auth.uid() = id"),
      DropPolicy(4, "Only authenticated users can manage doses", "doses",
                 TRUE),
      CreatePolicy(4, "Authenticated users can insert doses", "doses",
                   "INSERT", "auth.uid() IS NOT NULL"),
      CreatePolicy(4, "Authenticated users can update doses", "doses",
                   "UPDATE", "auth.uid() IS NOT NULL"),
      CreatePolicy(4, "Authenticated users can delete doses", "doses",
                   "DELETE", "auth.uid() IS NOT NULL"),
      DropPolicy(4, "Only authenticated users can manage medications",
                 "medications", TRUE),
      CreatePolicy(4, "Authenticated users can insert medications",
                   "medications", "INSERT", "auth.uid() IS NOT NULL"),
      CreatePolicy(4, "Authenticated users can update medications",
                   "medications", "UPDATE", "auth.uid() IS NOT NULL"),
      CreatePolicy(4, "Authenticated users can delete medications",
                   "medications", "DELETE", "auth.uid() IS NOT NULL")>>

\* Migration 5: medications become products and doses quantities.
RenameTables ==
    <<RenameTable(5, "medications", "products"),
      RenameTable(5, "doses", "quantities"),
      DropPolicy(5, "Anyone can view medications", "products", FALSE),
      DropPolicy(5, "Authenticated users can delete medications", "products",
                 FALSE),
      DropPolicy(5, "Authenticated users can insert medications", "products",
                 FALSE),
      DropPolicy(5, "Authenticated users can update medications", "products",
                 FALSE),
      CreatePolicy(5, "Anyone can view products", "products", "SELECT",
                   "true"),
      CreatePolicy(5, "Authenticated users can delete products", "products",
                   "DELETE", "auth.uid() IS NOT NULL"),
      CreatePolicy(5, "Authenticated users can insert products", "products",
                   "INSERT", "auth.uid() IS NOT NULL"),
      CreatePolicy(5, "Authenticated users can update products", "products",
                   "UPDATE", "auth.uid() IS NOT NULL"),
      DropPolicy(5, "Anyone can view doses", "quantities", FALSE),
      DropPolicy(5, "Authenticated users can delete doses", "quantities",
                 FALSE),
      DropPolicy(5, "Authenticated users can insert doses", "quantities",
                 FALSE),
      DropPolicy(5, "Authenticated users can update doses", "quantities",
                 FALSE),
      CreatePolicy(5, "Anyone can view quantities", "quantities", "SELECT",
                   "true"),
      CreatePolicy(5, "Authenticated users can delete quantities",
                   "quantities", "DELETE", "auth.uid() IS NOT NULL"),
      CreatePolicy(5, "Authenticated users can insert quantities",
                   "quantities", "INSERT", "auth.uid() IS NOT NULL"),
      CreatePolicy(5, "Authenticated users can update quantities",
                   "quantities", "UPDATE", "auth.uid() IS NOT NULL")>>

\* The history without migration 4: the rename follows migration 3.
StatementsWithoutSplit ==
    CreateTables \o RestrictDoseReads \o RevertAndAddProfiles \o RenameTables

\* The statements of the five migrations, in the order they were applied.
Statements ==
    CreateTables \o RestrictDoseReads \o RevertAndAddProfiles
        \o SplitPolicies \o RenameTables

\* The policy a statement names, on the table it names.
PolicyNamed(d, s) ==
    {p \in d.policies : p.name = s.name /\ p.table = s.table}

\* The database before the first migration.
EmptyDb == [tables |-> {}, rls |-> {}, policies |-> {}, triggers |-> {}]

\* The database d after the statement s.  A policy belongs to its table and
\* follows it when the table is renamed.
Apply(d, s) ==
    CASE s.op = "create table" ->
            [d EXCEPT !.tables = @ \cup {s.table}]
      [] s.op = "enable rls" ->
            [d EXCEPT !.rls = @ \cup {s.table}]
      [] s.op = "create policy" ->
            [d EXCEPT !.policies =
                @ \cup {[name |-> s.name, table |-> s.table, cmd |-> s.cmd,
                         who |-> s.who]}]
      [] s.op = "drop policy" ->
            [d EXCEPT !.policies = @ \ PolicyNamed(d, s)]
      [] s.op = "rename table" ->
            [tables |-> (d.tables \ {s.table}) \cup {s.to},
             rls |-> IF s.table \in d.rls
                     THEN (d.rls \ {s.table}) \cup {s.to} ELSE d.rls,
             policies |-> {IF p.table = s.table
                           THEN [p EXCEPT !.table = s.to] ELSE p :
                           p \in d.policies},
             triggers |-> d.triggers]
      [] s.op = "create trigger" ->
            [d EXCEPT !.triggers = @ \cup {s.name}]

\* The database after the first k statements.
RECURSIVE DbAfter(_)
DbAfter(k) == IF k = 0 THEN EmptyDb ELSE Apply(DbAfter(k - 1), Statements[k])

\* The expression of a policy, for the client whose auth.uid() is uid (0:
\* null) and the row whose id is rowId.
Holds(who, uid, rowId) ==
    CASE who = "true" -> TRUE
      [] who = "auth.uid() IS NOT NULL" -> uid # 0
      [] who = "auth.uid() = id" -> uid # 0 /\ uid = rowId

\* With row-level security, a command of a client on a row of a table is
\* permitted if a policy for that command, or for ALL, holds; without, the
\* table's grants permit it.
Permitted(d, uid, cmd, table, rowId) ==
    /\ table \in d.tables
    /\ table \in d.rls =>
           \E p \in d.policies :
               /\ p.table = table
               /\ p.cmd \in {cmd, "ALL"}
               /\ Holds(p.who, uid, rowId)

\* No row of public.profiles for this account.
NoProfile == [none |-> TRUE]

\* The row handle_new_user inserts for the account u.
handle_new_user(u) ==
    [email |-> EmailOf[u], can_edit |-> EmailOf[u] = ADMIN_EMAIL]

\* All migrations are applied and both accounts have signed up.
InitMigrated ==
    /\ applied = Len(Statements)
    /\ db = DbAfter(Len(Statements))
    /\ profiles = [u \in UserIds |-> handle_new_user(u)]

\* The administrator is signed in and the profile has been fetched.
InitSignedIn ==
    /\ user = [email |-> ADMIN_EMAIL, canEdit |-> TRUE]
    /\ session = 1
    /\ authLoading = FALSE
    /\ authSession = 1
    /\ authRevision = "deferred"
    /\ timers = EmptyBag
    /\ fetches = EmptyBag
    /\ sessionCheck = FALSE
    /\ passwords = <<ADMIN_PASSWORD, VisitorPassword>>
    /\ loginOpen = FALSE
    /\ InitMigrated

\* The dashboard as it mounts.
InitDashboard ==
    /\ products = <<>>
    /\ quantities = <<>>
    /\ stored = [products |-> <<>>, quantities |-> 0]
    /\ loading = {"products", "quantities"}
    /\ timeRange = "week"
    /\ customStartDate = <<>>
    /\ customEndDate = <<>>
    /\ customStartTime = <<0, 0>>
    /\ customEndTime = <<23, 59>>
    /\ now = Now0
    /\ rendered = Deps(<<>>, <<>>, "week", <<>>, <<>>, <<0, 0>>, <<23, 59>>)
    /\ visibleProducts = {}
    /\ toast = ""
    /\ submitted = NoSubmission
    /\ answers = {}

Init == InitDashboard /\ InitSignedIn

\* setProducts(rows) of the dashboard, and what the chart does on the render
\* that follows: setVisibleProducts(new Set(products.map(p => p.id))) and
\* the chartData memo.
setProducts(rows) ==
    /\ products' = rows
    /\ visibleProducts' = IdsOf(rows)
    /\ rendered' = Deps(rows, quantities, timeRange, customStartDate,
                        customEndDate, customStartTime, customEndTime)
    /\ UNCHANGED <<quantities, timeRange, customStartDate, customEndDate,
                   customStartTime, customEndTime, now, authVars,
                   dbVars>>

\* setQuantities(rows) of the dashboard and the chartData memo of the render
\* that follows.
setQuantities(rows) ==
    /\ quantities' = rows
    /\ rendered' = Deps(products, rows, timeRange, customStartDate,
                        customEndDate, customStartTime, customEndTime)
    /\ UNCHANGED <<products, visibleProducts, timeRange, customStartDate,
                   customEndDate, customStartTime, customEndTime, now,
                   authVars, dbVars>>

\* loadProducts is answered with the rows the select found.
loadProductsRows(rows) ==
    /\ "products" \in loading
    /\ loading' = loading \ {"products"}
    /\ setProducts(rows)
    /\ UNCHANGED <<stored, toast, submitted,
                   authVars, dbVars,
                   answers>>

\* loadQuantities is answered with the rows the select found.
loadQuantitiesRows(rows) ==
    /\ "quantities" \in loading
    /\ loading' = loading \ {"quantities"}
    /\ setQuantities(rows)
    /\ UNCHANGED <<stored, toast, submitted,
                   authVars, dbVars,
                   answers>>

\* loadProducts is answered with the rows of the mount: setProducts([]).
loadProducts == loadProductsRows(<<>>)

\* loadQuantities is answered with the rows of the mount: setQuantities([]).
loadQuantities == loadQuantitiesRows(<<>>)

\* The dashboard's addProduct, the insert succeeding: the row the store
\* returns goes last.
insertProduct(product) ==
    /\ Len(stored.products) + 1 \in ProductIds
    /\ LET newProduct == [id |-> Len(stored.products) + 1,
                           halfLife |-> product.halfLife,
                           color |-> product.color]
        IN  /\ setProducts(Append(products, newProduct))
            /\ stored' = [stored EXCEPT !.products = Append(@, newProduct)]
    /\ UNCHANGED <<loading, answers>>

\* The dashboard's addQuantity, the insert succeeding: the row the store
\* returns goes first.
insertQuantity(quantity) ==
    /\ stored.quantities + 1 \in QuantityIds
    /\ LET newQuantity == [id |-> stored.quantities + 1,
                            productId |-> quantity.productId,
                            amount |-> quantity.amount,
                            timestamp |-> quantity.timestamp]
        IN  setQuantities(<<newQuantity>> \o quantities)
    /\ stored' = [stored EXCEPT !.quantities = @ + 1]
    /\ UNCHANGED <<loading, answers>>

\* The colour the product form picks: the first of PRODUCT_COLORS no product
\* of the list has, any of them when all are taken.
selectableColors ==
    LET usedColors == {products[i].color : i \in 1..Len(products)}
        availableColors == {k \in 1..Len(PRODUCT_COLORS) :
                               PRODUCT_COLORS[k] \notin usedColors}
    IN  IF availableColors # {}
        THEN {PRODUCT_COLORS[CHOOSE k \in availableColors :
                                \A j \in availableColors : k <= j]}
        ELSE {PRODUCT_COLORS[k] : k \in 1..Len(PRODUCT_COLORS)}

\* A product form filled in with a name and this half-life is submitted and
\* the insert succeeds; the form's toast is left aside.
addProduct(halfLife) ==
    /\ \E color \in selectableColors :
           insertProduct([halfLife |-> halfLife, color |-> color])
    /\ UNCHANGED <<toast, submitted,
                   authVars, dbVars,
                   answers>>

\* A quantity form filled in for a product of the form's select is submitted
\* and the insert succeeds; the form's toast is left aside.
addQuantity(productId, amount, timestamp) ==
    /\ productId \in IdsOf(products)
    /\ insertQuantity([productId |-> productId, amount |-> amount,
                       timestamp |-> timestamp])
    /\ UNCHANGED <<toast, submitted,
                   authVars, dbVars,
                   answers>>

\* The range controls are rendered only when both lists hold something.
ControlsShown == Len(products) # 0 /\ Len(quantities) # 0

\* setTimeRange with a projection that reverses the list of quantities it
\* is given, in place.
setTimeRangeReversing(v) ==
    /\ ControlsShown
    /\ v # timeRange
    /\ timeRange' = v
    /\ quantities' = [j \in 1..Len(quantities) |->
                         quantities[Len(quantities) + 1 - j]]
    /\ rendered' = Deps(products, quantities, v, customStartDate,
                        customEndDate, customStartTime, customEndTime)
    /\ UNCHANGED <<products, stored, loading, customStartDate,
                   customEndDate, customStartTime, customEndTime, now,
                   visibleProducts, toast, submitted,
                   authVars, dbVars,
                   answers>>

\* onClick={() => setTimeRange(v)}
setTimeRange(v) ==
    /\ ControlsShown
    /\ v # timeRange
    /\ timeRange' = v
    /\ rendered' = Deps(products, quantities, v, customStartDate,
                        customEndDate, customStartTime, customEndTime)
    /\ UNCHANGED <<products, quantities, stored, loading, customStartDate,
                   customEndDate, customStartTime, customEndTime, now,
                   visibleProducts, toast, submitted,
                   authVars, dbVars,
                   answers>>

\* The calendars' onSelect.
setCustomStartDate(d) ==
    /\ ControlsShown /\ timeRange = "custom"
    /\ customStartDate' = d
    /\ rendered' = Deps(products, quantities, timeRange, d,
                        customEndDate, customStartTime, customEndTime)
    /\ UNCHANGED <<products, quantities, stored, loading, timeRange,
                   customEndDate, customStartTime, customEndTime, now,
                   visibleProducts, toast, submitted,
                   authVars, dbVars,
                   answers>>

setCustomEndDate(d) ==
    /\ ControlsShown /\ timeRange = "custom"
    /\ customEndDate' = d
    /\ rendered' = Deps(products, quantities, timeRange, customStartDate,
                        d, customStartTime, customEndTime)
    /\ UNCHANGED <<products, quantities, stored, loading, timeRange,
                   customStartDate, customStartTime, customEndTime, now,
                   visibleProducts, toast, submitted,
                   authVars, dbVars,
                   answers>>

\* The time inputs' onChange.
setCustomStartTime(t) ==
    /\ ControlsShown /\ timeRange = "custom"
    /\ t # customStartTime
    /\ customStartTime' = t
    /\ rendered' = Deps(products, quantities, timeRange, customStartDate,
                        customEndDate, t, customEndTime)
    /\ UNCHANGED <<products, quantities, stored, loading, timeRange,
                   customStartDate, customEndDate, customEndTime, now,
                   visibleProducts, toast, submitted,
                   authVars, dbVars,
                   answers>>

\* The end time's onChange with customEndTime missing from the memo's
\* dependencies: the memo is not computed again.
setCustomEndTimeUnwatched(t) ==
    /\ ControlsShown /\ timeRange = "custom"
    /\ t # customEndTime
    /\ customEndTime' = t
    /\ UNCHANGED <<products, quantities, stored, loading, timeRange,
                   customStartDate, customEndDate, customStartTime, now,
                   rendered, visibleProducts, toast, submitted,
                   authVars, dbVars,
                   answers>>

setCustomEndTime(t) ==
    /\ ControlsShown /\ timeRange = "custom"
    /\ t # customEndTime
    /\ customEndTime' = t
    /\ rendered' = Deps(products, quantities, timeRange, customStartDate,
                        customEndDate, customStartTime, t)
    /\ UNCHANGED <<products, quantities, stored, loading, timeRange,
                   customStartDate, customEndDate, customStartTime, now,
                   visibleProducts, toast, submitted,
                   authVars, dbVars,
                   answers>>

\* The updater without its delete branch: the id is added, never removed.
toggledAddOnly(prev, productId) == prev \cup {productId}

\* The updater toggleProductVisibility gives to setVisibleProducts: a copy of
\* prev without productId if it has it, with productId if not.
toggled(prev, productId) ==
    IF productId \in prev THEN prev \ {productId} ELSE prev \cup {productId}

\* The legend's onClick: the badge of a product of the list is clicked.
toggleProductVisibility(productId) ==
    /\ ControlsShown
    /\ productId \in IdsOf(products)
    /\ visibleProducts' = toggled(visibleProducts, productId)
    /\ UNCHANGED <<products, quantities, stored, loading, timeRange,
                   customStartDate, customEndDate, customStartTime,
                   customEndTime, now, rendered, toast, submitted,
                   authVars, dbVars,
                   answers>>

\* Time passes: new Date() returns a later instant.  Nothing is rendered
\* again for that.
MaxTicks == 2
Tick ==
    /\ now < Now0 + MaxTicks * Hour
    /\ now' = now + Hour
    /\ UNCHANGED <<products, quantities, stored, loading, timeRange,
                   customStartDate, customEndDate, customStartTime,
                   customEndTime, rendered, visibleProducts, toast, submitted,
                   authVars, dbVars,
                   answers>>

\* The variables of the dashboard and of the chart, which a form that turns
\* its submission down leaves alone.
listVars == <<products, quantities, stored, loading, timeRange, customStartDate,
              customEndDate, customStartTime, customEndTime, now, rendered,
              visibleProducts, answers>>

\* user?.canEdit ?? false
canEdit == user # NoUser /\ user.canEdit

\* isNaN(halfLifeNum) without the test halfLifeNum <= 0.
notPositiveNaNOnly(x) == IsNaN(x)

\* isNaN(x) || x < 0, zero let through.
notPositiveBelowZeroOnly(x) == IsNaN(x) \/ Lt(x, Zero)

\* isNaN(x) || x <= 0
notPositive(x) == IsNaN(x) \/ Leq(x, Zero)

\* ProductRegistry's handleSubmit with these texts in the name and half-life
\* fields.  onAddProduct is the dashboard's addProduct, whose insert the
\* store accepts or refuses; the form shows 'Producto agregado' either way.
handleSubmitProduct(name, halfLife) ==
    LET halfLifeNum == parseFloat(halfLife)
        turnedDown(title) ==
            /\ toast' = title
            /\ submitted' = [form |-> "product", name |-> name,
                             halfLife |-> halfLife, called |-> FALSE]
            /\ UNCHANGED listVars
    IN  /\ UNCHANGED <<authVars, dbVars,
                   answers>>
        /\ IF ~canEdit THEN turnedDown("Acceso denegado")
           ELSE IF trim(name) = <<>> \/ trim(halfLife) = <<>>
           THEN turnedDown("Campos requeridos")
           ELSE IF notPositive(halfLifeNum)
           THEN turnedDown("Vida media inválida")
           ELSE /\ toast' = "Producto agregado"
                /\ submitted' = [form |-> "product", name |-> name,
                                 halfLife |-> halfLife, called |-> TRUE]
                /\ \/ \E color \in selectableColors :
                          insertProduct([halfLife |-> halfLifeNum,
                                         color |-> color])
                   \/ UNCHANGED listVars

\* The dashboard's updateProduct, the update succeeding: the fields of
\* updates are written to the row of the store, the row comes back, and the
\* product of that id in the list is replaced by it.
updateProduct(productId, updates) ==
    /\ productId \in 1..Len(stored.products)
    /\ LET row == stored.products[productId]
           data == [id |-> row.id,
                    halfLife |-> IF "halfLife" \in DOMAIN updates
                                 THEN updates.halfLife ELSE row.halfLife,
                    color |-> IF "color" \in DOMAIN updates
                              THEN updates.color ELSE row.color]
           updatedProduct == [id |-> data.id, halfLife |-> data.halfLife,
                              color |-> data.color]
       IN  /\ stored' = [stored EXCEPT !.products[productId] = data]
           /\ setProducts([k \in 1..Len(products) |->
                              IF products[k].id = productId
                              THEN updatedProduct ELSE products[k]])
    /\ UNCHANGED <<loading, answers>>

\* ProductRegistry's handleColorChange for a product of the list.
\* onUpdateProduct is the dashboard's updateProduct, whose update the store
\* accepts or refuses; the form shows 'Color actualizado' either way.
handleColorChange(productId, newColor) ==
    /\ productId \in IdsOf(products)
    /\ UNCHANGED <<authVars, dbVars,
                   answers>>
    /\ IF ~canEdit
       THEN /\ toast' = "Acceso denegado"
            /\ submitted' = [form |-> "color", productId |-> productId,
                             color |-> newColor, called |-> FALSE]
            /\ UNCHANGED listVars
       ELSE /\ toast' = "Color actualizado"
            /\ submitted' = [form |-> "color", productId |-> productId,
                             color |-> newColor, called |-> TRUE]
            /\ \/ updateProduct(productId, [color |-> newColor])
               \/ UNCHANGED listVars

\* The timestamp QuantityRegistry's handleSubmit builds: the chosen date at
\* the chosen time, at midnight when no time is chosen; today at the chosen
\* time when no date is chosen; the current instant when neither is.
submitTimestamp(selectedDate, selectedTime) ==
    IF selectedDate # <<>>
    THEN IF selectedTime # <<>>
         THEN selectedDate[1] * Day + selectedTime[1] * Hour + selectedTime[2] * 60
         ELSE selectedDate[1] * Day
    ELSE IF selectedTime # <<>>
    THEN (now \div Day) * Day + selectedTime[1] * Hour + selectedTime[2] * 60
    ELSE now

\* QuantityRegistry's handleSubmit with this product selected (0: none), this
\* text in the amount field and this date and time.  onAddQuantity is the
\* dashboard's addQuantity, whose insert the store accepts or refuses; the
\* form shows 'Cantidad registrada' either way.
handleSubmitQuantity(selectedProductId, amount, selectedDate, selectedTime) ==
    LET amountNum == parseFloat(amount)
        submission(called) ==
            [form |-> "quantity", productId |-> selectedProductId,
             amount |-> amount, date |-> selectedDate, time |-> selectedTime,
             called |-> called]
        turnedDown(title) ==
            /\ toast' = title
            /\ submitted' = submission(FALSE)
            /\ UNCHANGED listVars
    IN  /\ selectedProductId \in {0} \cup IdsOf(products)
        /\ UNCHANGED <<authVars, dbVars,
                   answers>>
        /\ IF ~canEdit THEN turnedDown("Acceso denegado")
           ELSE IF selectedProductId = 0 \/ trim(amount) = <<>>
           THEN turnedDown("Campos requeridos")
           ELSE IF notPositive(amountNum)
           THEN turnedDown("Cantidad inválida")
           ELSE /\ toast' = "Cantidad registrada"
                /\ submitted' = submission(TRUE)
                /\ \/ insertQuantity(
                          [productId |-> selectedProductId, amount |-> amountNum,
                           timestamp |-> submitTimestamp(selectedDate, selectedTime)])
                   \/ UNCHANGED listVars

\* ---------------------------------------------------------------------------
\* The AuthProvider, the auth client it listens to, and the forms of the
\* account.

\* How many timers and profile requests are pending at once, at most.
MaxPending == 2
Pending == BagCardinality(timers) + BagCardinality(fetches)

\* The variables of the dashboard, of the chart, of the forms of the lists
\* and of the database.
appVars == <<listVars, toast, submitted, dbVars>>

\* The listener given to onAuthStateChange, called with the session s (0 for
\* null).  With a session, "deferred" sets a timer that will call
\* fetchUserProfile and "awaited" sends the profile request there and then,
\* with the token of that session.
authStateChange(s) ==
    /\ session' = s
    /\ IF s # 0
       THEN IF authRevision = "deferred"
            THEN /\ timers' = timers (+) SetToBag({s})
                 /\ UNCHANGED <<user, authLoading, fetches>>
            ELSE /\ fetches' = fetches (+) SetToBag({[id |-> s, found |-> TRUE]})
                 /\ UNCHANGED <<user, authLoading, timers>>
       ELSE /\ user' = NoUser
            /\ authLoading' = FALSE
            /\ UNCHANGED <<timers, fetches>>

\* The auth client signs the account u in and tells the listener.
signedIn(u) ==
    /\ authRevision # "local"
    /\ Pending < MaxPending
    /\ authSession' = u
    /\ authStateChange(u)
    /\ UNCHANGED <<authRevision, sessionCheck, passwords, loginOpen, appVars>>

\* The auth client signs out (supabase.auth.signOut(), or the session ends)
\* and tells the listener.
signedOut ==
    /\ authRevision # "local"
    /\ authSession # 0
    /\ authSession' = 0
    /\ authStateChange(0)
    /\ UNCHANGED <<authRevision, sessionCheck, passwords, loginOpen, appVars>>

\* The auth client tells the listener of the session it holds: the initial
\* session, a refreshed token, an updated account.
authStateNotified ==
    /\ authRevision # "local"
    /\ Pending < MaxPending
    /\ authStateChange(authSession)
    /\ UNCHANGED <<authSession, authRevision, sessionCheck, passwords,
                   loginOpen, appVars>>

\* A timer of the listener runs: fetchUserProfile(u) sends its request, with
\* the token the client holds now.  Row-level security shows a profile to
\* its owner only.
timerRuns(u) ==
    /\ BagIn(u, timers)
    /\ timers' = timers (-) SetToBag({u})
    /\ fetches' = fetches (+) SetToBag({[id |-> u, found |-> authSession = u]})
    /\ UNCHANGED <<user, session, authLoading, authSession, authRevision,
                   sessionCheck, passwords, loginOpen, appVars>>

\* A profile request is answered: if (profile) setUser(...), then
\* setLoading(false).
profileAnswered(f) ==
    /\ BagIn(f, fetches)
    /\ fetches' = fetches (-) SetToBag({f})
    /\ user' = IF f.found /\ profiles[f.id] # NoProfile
               THEN [email |-> profiles[f.id].email,
                     canEdit |-> profiles[f.id].can_edit]
               ELSE user
    /\ authLoading' = FALSE
    /\ UNCHANGED <<session, authSession, authRevision, timers, sessionCheck,
                   passwords, loginOpen, appVars>>

\* getSession() is answered with the session the client holds.
getSessionAnswered ==
    /\ sessionCheck
    /\ sessionCheck' = FALSE
    /\ session' = authSession
    /\ IF authSession # 0
       THEN /\ fetches' = fetches (+)
                              SetToBag({[id |-> authSession, found |-> TRUE]})
            /\ UNCHANGED authLoading
       ELSE /\ authLoading' = FALSE
            /\ UNCHANGED fetches
    /\ UNCHANGED <<user, authSession, authRevision, timers, passwords,
                   loginOpen, appVars>>

\* The dashboard's 'Cerrar Sesión' button, shown while there is a user.
logout ==
    /\ user # NoUser
    /\ IF authRevision = "local"
       THEN /\ user' = NoUser
            /\ UNCHANGED <<session, authLoading, authSession, authRevision,
                           timers, fetches, sessionCheck, passwords, loginOpen,
                           appVars>>
       ELSE signedOut

\* The dashboard's 'Iniciar Sesión' button, shown while there is no user.
openLogin ==
    /\ user = NoUser
    /\ loginOpen' = TRUE
    /\ UNCHANGED <<user, session, authLoading, authSession, authRevision,
                   timers, fetches, sessionCheck, passwords, appVars>>

\* These credentials are those of an account.
Accepted(email, password) ==
    \E u \in UserIds : EmailOf[u] = email /\ passwords[u] = password

\* LoginForm's handleSubmit with these texts in its fields: const success =
\* login(email, password), then 'Login exitoso' and onClose() if (success),
\* 'Error de autenticación' otherwise.  The boolean of "local" is the answer;
\* the promise of the other revisions is an object, which if (success) takes
\* as true, and signInWithPassword signs in when the credentials are those
\* of an account.
handleSubmitLogin(email, password) ==
    /\ loginOpen
    /\ Pending < MaxPending
    /\ submitted' = [form |-> "login", email |-> email, password |-> password,
                     called |-> TRUE]
    /\ IF authRevision = "local"
       THEN LET success == email = ADMIN_EMAIL /\ password = passwords[1]
            IN  /\ user' = IF success
                            THEN [email |-> email, canEdit |-> TRUE] ELSE user
                /\ IF success
                   THEN toast' = "Login exitoso" /\ loginOpen' = FALSE
                   ELSE toast' = "Error de autenticación" /\ UNCHANGED loginOpen
                /\ UNCHANGED <<session, authLoading, authSession, timers,
                               fetches>>
       ELSE /\ toast' = "Login exitoso"
            /\ loginOpen' = FALSE
            /\ IF Accepted(email, password)
               THEN LET u == CHOOSE i \in UserIds : EmailOf[i] = email
                    IN  authSession' = u /\ authStateChange(u)
               ELSE UNCHANGED <<user, session, authLoading, authSession,
                                timers, fetches>>
    /\ UNCHANGED <<authRevision, sessionCheck, passwords, listVars, dbVars>>

\* UserSettings' handlePasswordChange with these texts in its fields,
\* without the test of canEdit.
handlePasswordChangeUnguarded(newPassword, confirmPassword) ==
    /\ toast' = "Contraseña actualizada"
    /\ submitted' = [form |-> "password", newPassword |-> newPassword,
                     confirmPassword |-> confirmPassword, called |-> TRUE]
    /\ UNCHANGED <<user, session, authLoading, authSession, authRevision,
                   timers, fetches, sessionCheck, passwords, loginOpen,
                   listVars, dbVars>>

\* UserSettings' handlePasswordChange with these texts in its fields.
\* changePassword answers "local" with a boolean, in which const { error }
\* finds no error; the other revisions answer {error: 'No user logged in'}
\* without a session, and otherwise what updateUser answers.
handlePasswordChange(newPassword, confirmPassword) ==
    LET submission(called) ==
            [form |-> "password", newPassword |-> newPassword,
             confirmPassword |-> confirmPassword, called |-> called]
        turnedDown(title) ==
            /\ toast' = title
            /\ submitted' = submission(FALSE)
            /\ UNCHANGED passwords
    IN  /\ UNCHANGED <<user, session, authLoading, authSession, authRevision,
                       timers, fetches, sessionCheck, loginOpen, listVars,
                       dbVars>>
        /\ IF ~canEdit THEN turnedDown("Acceso denegado")
           ELSE IF trim(newPassword) = <<>> \/ trim(confirmPassword) = <<>>
           THEN turnedDown("Campos requeridos")
           ELSE IF newPassword # confirmPassword
           THEN turnedDown("Contraseñas no coinciden")
           ELSE IF Len(newPassword) < 6
           THEN turnedDown("Contraseña muy corta")
           ELSE /\ submitted' = submission(TRUE)
                /\ IF authRevision = "local"
                   THEN /\ toast' = "Contraseña actualizada"
                        /\ passwords' =
                               IF user.email = ADMIN_EMAIL
                               THEN [passwords EXCEPT ![1] = newPassword]
                               ELSE passwords
                   ELSE IF session = 0
                   THEN /\ toast' = "Error al cambiar contraseña"
                        /\ UNCHANGED passwords
                   ELSE \/ /\ authSession # 0
                           /\ toast' = "Contraseña actualizada"
                           /\ passwords' =
                                  [passwords EXCEPT ![authSession] = newPassword]
                        \/ /\ toast' = "Error al cambiar contraseña"
                           /\ UNCHANGED passwords

\* The three fixed ranges.
FixedRanges == {"day", "week", "month"}

\* Products and quantities of every kind arrive and the user moves between
\* the fixed ranges, the two requests of the mount still unanswered.
Next ==
    \/ \E h \in HalfLives : addProduct(h)
    \/ \E p \in ProductIds, q \in QuantityInputs :
          addQuantity(p, q.amount, q.timestamp)
    \/ \E v \in FixedRanges : setTimeRange(v)

Spec == Init /\ [][Next]_vars

\* One kind of product and of quantity arrives, a dose scheduled after every
\* window, while the two requests of the mount are answered; the user works
\* every range control.
NextRange ==
    \/ loadProducts
    \/ loadQuantities
    \/ addProduct(FromTenths(240))
    \/ \E p \in ProductIds : addQuantity(p, FromTenths(200), LateDose)
    \/ \E v \in TimeRangePresets : setTimeRange(v)
    \/ \E d \in CustomStartDays : setCustomStartDate(<<d>>)
    \/ \E d \in CustomEndDays : setCustomEndDate(<<d>>)
    \/ \E t \in CustomStartTimes : setCustomStartTime(t)
    \/ \E t \in CustomEndTimes : setCustomEndTime(t)

SpecRange == Init /\ [][NextRange]_vars

\* Products of one kind arrive, with doses eight days ago or scheduled after
\* every window; the user moves between the fixed ranges and clicks the
\* badges of the legend.
NextLegend ==
    \/ addProduct(FromTenths(240))
    \/ \E p \in ProductIds, t \in {EarlyDose, LateDose} :
          addQuantity(p, FromTenths(200), t)
    \/ \E v \in FixedRanges : setTimeRange(v)
    \/ \E id \in ProductIds : toggleProductVisibility(id)

SpecLegend == Init /\ [][NextLegend]_vars

\* Rows other sessions left in the store: the tables put no constraint on
\* half_life or amount.  Products 3 and 4 with a half-life of 24 hours, of
\* zero or of minus a tenth of an hour; two quantities of product 3, of 20 mg
\* or -20 mg and of -30 mg, 0 mg or 20 mg, eight days ago or now.
StoreHalfLives == {FromTenths(240), Zero, FromTenths(-1)}
StoreProduct(id, halfLife) ==
    [id |-> id, halfLife |-> halfLife, color |-> PRODUCT_COLORS[id]]
StoreProductRows ==
    {<<StoreProduct(3, h)>> : h \in StoreHalfLives}
        \cup {<<StoreProduct(3, FromTenths(240)), StoreProduct(4, Zero)>>}
StoreQuantity(id, amount, timestamp) ==
    [id |-> id, productId |-> 3, amount |-> amount, timestamp |-> timestamp]
StoreQuantityRows ==
    {<<StoreQuantity(3, a, t), StoreQuantity(4, b, u)>> :
        a \in {FromTenths(200), FromTenths(-200)},
        b \in {FromTenths(-300), Zero, FromTenths(200)},
        t \in {EarlyDose, Now0}, u \in {EarlyDose, Now0}}

\* The dashboard mounts on a store that holds such rows and the user moves
\* between the fixed ranges.
NextStore ==
    \/ \E rows \in StoreProductRows : loadProductsRows(rows)
    \/ \E rows \in StoreQuantityRows : loadQuantitiesRows(rows)
    \/ \E v \in FixedRanges : setTimeRange(v)

SpecStore == Init /\ [][NextStore]_vars

\* A product and doses of eight days ago arrive while time passes and the
\* user moves between the fixed ranges and a custom range.
NextClock ==
    \/ addProduct(FromTenths(240))
    \/ addQuantity(1, FromTenths(200), EarlyDose)
    \/ \E v \in TimeRangePresets : setTimeRange(v)
    \/ \E d \in CustomStartDays : setCustomStartDate(<<d>>)
    \/ \E d \in CustomEndDays : setCustomEndDate(<<d>>)
    \/ Tick

SpecClock == Init /\ [][NextClock]_vars

\* The dashboard mounts on a store whose rows have half-lives and amounts of
\* zero and below, and the user works every range control.
BadProductRows == {<<StoreProduct(3, Zero)>>, <<StoreProduct(3, FromTenths(-1))>>}
BadQuantityRows ==
    {<<StoreQuantity(3, FromTenths(-200), EarlyDose), StoreQuantity(4, Zero, Now0)>>,
     <<StoreQuantity(3, FromTenths(200), Now0), StoreQuantity(4, FromTenths(-300), Now0)>>}

NextAnyInput ==
    \/ \E rows \in BadProductRows : loadProductsRows(rows)
    \/ \E rows \in BadQuantityRows : loadQuantitiesRows(rows)
    \/ \E v \in TimeRangePresets : setTimeRange(v)
    \/ \E d \in CustomStartDays : setCustomStartDate(<<d>>)
    \/ \E d \in CustomEndDays : setCustomEndDate(<<d>>)
    \/ \E t \in CustomStartTimes : setCustomStartTime(t)
    \/ \E t \in CustomEndTimes : setCustomEndTime(t)

SpecAnyInput == Init /\ [][NextAnyInput]_vars

\* What is typed in the fields of the product form, and the colours picked.
NameFields == {<<>>, <<"A">>}
HalfLifeFields ==
    {<<>>, <<" ">>, <<"a", "b", "c">>, <<"0">>, <<"-", "3">>,
     <<"2", "4">>, <<"0", ".", "5">>}
PickedColors == {PRODUCT_COLORS[3]}

\* The administrator submits the product form and changes colours.
NextProductForm ==
    \/ \E name \in NameFields, halfLife \in HalfLifeFields :
          handleSubmitProduct(name, halfLife)
    \/ \E id \in ProductIds, color \in PickedColors :
          handleColorChange(id, color)

SpecProductForm == Init /\ [][NextProductForm]_vars

\* What is typed in the amount field, and the date and time chosen: none,
\* or the eighth at 16:00, the instant of EarlyDose.
AmountFields ==
    {<<>>, <<" ">>, <<"x">>, <<"0">>, <<"-", "5">>, <<"2", "0">>,
     <<"0", ".", "3">>}
SelectedInstants ==
    {[date |-> <<>>, time |-> <<>>], [date |-> <<8>>, time |-> <<16, 0>>]}

\* A product arrives and the administrator submits the quantity form.
NextQuantityForm ==
    \/ addProduct(FromTenths(240))
    \/ \E id \in {0} \cup ProductIds, amount \in AmountFields,
          at \in SelectedInstants :
          handleSubmitQuantity(id, amount, at.date, at.time)

SpecQuantityForm == Init /\ [][NextQuantityForm]_vars

\* The lists fill while time passes and the user works every range control.
NextWindow ==
    \/ addProduct(FromTenths(240))
    \/ addQuantity(1, FromTenths(200), LateDose)
    \/ \E v \in TimeRangePresets : setTimeRange(v)
    \/ \E d \in CustomStartDays : setCustomStartDate(<<d>>)
    \/ \E d \in CustomEndDays : setCustomEndDate(<<d>>)
    \/ \E t \in CustomStartTimes : setCustomStartTime(t)
    \/ \E t \in CustomEndTimes : setCustomEndTime(t)
    \/ Tick

SpecWindow == Init /\ [][NextWindow]_vars

(***************************************************************************)
(* What the properties below speak of.                                      *)
(***************************************************************************)

\* What is typed in the password fields: nothing, a short password, a new
\* password.
NewPasswords ==
    {<<>>, <<"a", "b", "c">>, <<"s", "e", "c", "r", "e", "t", "o">>}

\* The lists load, the administrator fills them, signs out, the visitor
\* signs in, and each form is submitted under every one of them.
NextReadOnly ==
    \/ loadProducts
    \/ loadQuantities
    \/ handleSubmitProduct(<<"A">>, <<"2", "4">>)
    \/ \E id \in ProductIds, color \in PickedColors :
          handleColorChange(id, color)
    \/ \E id \in ProductIds :
          handleSubmitQuantity(id, <<"2", "0">>, <<>>, <<>>)
    \/ \E newPassword \in NewPasswords, confirmPassword \in NewPasswords :
          handlePasswordChange(newPassword, confirmPassword)
    \/ logout
    \/ \E u \in UserIds : authSession = 0 /\ signedIn(u)
    \/ \E u \in UserIds : timerRuns(u)
    \/ \E f \in BagToSet(fetches) : profileAnswered(f)

SpecReadOnly == Init /\ [][NextReadOnly]_vars

\* The instant QuantityRegistry's preview line announces: the chosen date,
\* or 'hoy'; at the chosen time, or at 'hora actual'; with neither, now.
previewTimestamp(selectedDate, selectedTime) ==
    IF selectedDate = <<>> /\ selectedTime = <<>>
    THEN now
    ELSE (IF selectedDate # <<>> THEN selectedDate[1] * Day
          ELSE (now \div Day) * Day)
         + (IF selectedTime # <<>>
            THEN selectedTime[1] * Hour + selectedTime[2] * 60
            ELSE now % Day)

\* The date and the time chosen in the quantity form: none, or the eighth;
\* none, or 09:30.
SelectedDates == {<<>>, <<8>>}
SelectedTimes == {<<>>, <<9, 30>>}

\* A product arrives, time passes, and the administrator submits the
\* quantity form with every choice of date and time.
NextQuantityInstant ==
    \/ addProduct(FromTenths(240))
    \/ Tick
    \/ \E selectedDate \in SelectedDates, selectedTime \in SelectedTimes :
          handleSubmitQuantity(1, <<"2", "0">>, selectedDate, selectedTime)

SpecQuantityInstant == Init /\ [][NextQuantityInstant]_vars

\* Nobody is signed in, under each revision of the AuthProvider.
InitSignedOut ==
    /\ user = NoUser
    /\ session = 0
    /\ authLoading = FALSE
    /\ authSession = 0
    /\ authRevision \in {"local", "awaited", "deferred"}
    /\ timers = EmptyBag
    /\ fetches = EmptyBag
    /\ sessionCheck = FALSE
    /\ passwords = <<ADMIN_PASSWORD, VisitorPassword>>
    /\ loginOpen = FALSE
    /\ InitMigrated

\* What is typed in the login form: the administrator's e-mail with the
\* first password and with another, the visitor's with the visitor's.
Credentials ==
    {[email |-> ADMIN_EMAIL, password |-> ADMIN_PASSWORD],
     [email |-> ADMIN_EMAIL,
      password |-> <<"s", "e", "c", "r", "e", "t", "o">>],
     [email |-> EmailOf[2], password |-> VisitorPassword]}

\* These credentials are those login accepts under the revision that runs.
LoginAccepted(email, password) ==
    IF authRevision = "local"
    THEN email = ADMIN_EMAIL /\ password = passwords[1]
    ELSE Accepted(email, password)

\* The login dialog is opened and submitted, profiles arrive, the password
\* is changed and the user signs out.
NextLogin ==
    \/ openLogin
    \/ \E c \in Credentials : handleSubmitLogin(c.email, c.password)
    \/ \E u \in UserIds : timerRuns(u)
    \/ \E f \in BagToSet(fetches) : profileAnswered(f)
    \/ \E newPassword \in NewPasswords :
          handlePasswordChange(newPassword, newPassword)
    \/ logout

\* The dashboard mounts with nobody signed in.
InitLogin == InitDashboard /\ InitSignedOut

SpecLogin == InitLogin /\ [][NextLogin]_vars

\* The AuthProvider mounts, in either revision that listens to the auth
\* client, which holds a stored session or none: useState(null),
\* useState(null), useState(true), and getSession() is asked.
InitAuth ==
    /\ InitDashboard
    /\ user = NoUser
    /\ session = 0
    /\ authLoading = TRUE
    /\ authSession \in {0} \cup UserIds
    /\ authRevision \in {"awaited", "deferred"}
    /\ timers = EmptyBag
    /\ fetches = EmptyBag
    /\ sessionCheck = TRUE
    /\ passwords = <<ADMIN_PASSWORD, VisitorPassword>>
    /\ loginOpen = FALSE
    /\ InitMigrated

\* The auth client signs in and out and tells the listener; timers run and
\* profile requests and getSession() are answered, in any order.
NextAuth ==
    \/ \E u \in UserIds : signedIn(u)
    \/ signedOut
    \/ authStateNotified
    \/ \E u \in UserIds : timerRuns(u)
    \/ \E f \in BagToSet(fetches) : profileAnswered(f)
    \/ getSessionAnswered

SpecAuth == InitAuth /\ [][NextAuth]_vars

\* The next statement of the migrations is applied.
applyStatement ==
    /\ applied < Len(Statements)
    /\ applied' = applied + 1
    /\ db' = Apply(db, Statements[applied + 1])
    /\ UNCHANGED <<profiles, authVars, listVars, toast, submitted>>

\* The account u signs up: the trigger on auth.users runs handle_new_user.
signUp(u) ==
    /\ "on_auth_user_created" \in db.triggers
    /\ profiles[u] = NoProfile
    /\ profiles' = [profiles EXCEPT ![u] = handle_new_user(u)]
    /\ UNCHANGED <<db, applied, authVars, listVars, toast, submitted>>

\* The client whose auth.uid() is uid (0: null) updates can_edit in the
\* profile of the account target, which row-level security permits or not.
updateProfile(uid, target, can_edit) ==
    /\ profiles[target] # NoProfile
    /\ Permitted(db, uid, "UPDATE", "profiles", target)
    /\ profiles' = [profiles EXCEPT ![target].can_edit = can_edit]
    /\ UNCHANGED <<db, applied, authVars, listVars, toast, submitted>>

\* Nothing is migrated, nobody has signed up, and the page is as it mounts
\* with nobody signed in.
InitDatabase ==
    /\ InitDashboard
    /\ user = NoUser
    /\ session = 0
    /\ authLoading = FALSE
    /\ authSession = 0
    /\ authRevision = "deferred"
    /\ timers = EmptyBag
    /\ fetches = EmptyBag
    /\ sessionCheck = FALSE
    /\ passwords = <<ADMIN_PASSWORD, VisitorPassword>>
    /\ loginOpen = FALSE
    /\ applied = 0
    /\ db = EmptyDb
    /\ profiles = [u \in UserIds |-> NoProfile]

\* The migrations are applied one statement after the other while accounts
\* sign up and clients, signed in or not, try to update profiles.
NextDatabase ==
    \/ applyStatement
    \/ \E u \in UserIds : signUp(u)
    \/ \E uid \in {0} \cup UserIds, target \in UserIds, can_edit \in BOOLEAN :
          updateProfile(uid, target, can_edit)

SpecDatabase == InitDatabase /\ [][NextDatabase]_vars

\* The first half of the dashboard's addProduct: the insert reaches the
\* store, which keeps the row and sends it back.
addProductSent(halfLife) ==
    /\ Len(stored.products) + 1 \in ProductIds
    /\ \E color \in selectableColors :
           LET newProduct == [id |-> Len(stored.products) + 1,
                               halfLife |-> halfLife, color |-> color]
           IN  /\ stored' = [stored EXCEPT !.products = Append(@, newProduct)]
               /\ answers' = answers \cup {newProduct}
    /\ UNCHANGED <<products, quantities, loading, timeRange, customStartDate,
                   customEndDate, customStartTime, customEndTime, now,
                   rendered, visibleProducts, toast, submitted, authVars,
                   dbVars>>

\* The second half: the row arrives and setProducts(prev => [...prev,
\* newProduct]) runs.
addProductAnswered(newProduct) ==
    /\ newProduct \in answers
    /\ answers' = answers \ {newProduct}
    /\ setProducts(Append(products, newProduct))
    /\ UNCHANGED <<stored, loading, toast, submitted>>

\* loadProducts is answered with the rows its select found when the store
\* ran it: those of the store now, or those of an earlier moment, in the
\* order of created_at.
loadProductsFound ==
    \E k \in 0..Len(stored.products) :
        loadProductsRows(SubSeq(stored.products, 1, k))

\* Products and a quantity are added while the loads of the mount are still
\* in flight; answers arrive in any order.
NextInFlight ==
    \/ \E halfLife \in HalfLives : addProductSent(halfLife)
    \/ \E newProduct \in answers : addProductAnswered(newProduct)
    \/ loadProductsFound
    \/ addQuantity(1, FromTenths(200), EarlyDose)
    \/ loadQuantities
    \/ \E id \in ProductIds : toggleProductVisibility(id)

SpecInFlight == Init /\ [][NextInFlight]_vars

\* The lists load, products and a quantity are added, colours are changed
\* and the badges of the legend are clicked.
NextVisibility ==
    \/ loadProductsFound
    \/ loadQuantities
    \/ \E halfLife \in HalfLives : addProduct(halfLife)
    \/ addQuantity(1, FromTenths(200), EarlyDose)
    \/ \E id \in ProductIds, color \in {PRODUCT_COLORS[3], PRODUCT_COLORS[4]} :
          handleColorChange(id, color)
    \/ \E id \in ProductIds : toggleProductVisibility(id)

SpecVisibility == Init /\ [][NextVisibility]_vars

\* The window getTimeRange() gives in this state.
Window ==
    getTimeRange(timeRange, customStartDate, customEndDate,
                 customStartTime, customEndTime, now)

\* Both lists hold something and the window is one with start <= end.
Projecting ==
    /\ Len(products) # 0
    /\ Len(quantities) # 0
    /\ Window.valid
    /\ Window.start <= Window.end

Span == Window.end - Window.start

\* The quantities of the list that name this product.
EventsOf(id) == {j \in 1..Len(quantities) : quantities[j].productId = id}

\* The list without its j-th quantity.
Without(qs, j) == SubSeq(qs, 1, j - 1) \o SubSeq(qs, j + 1, Len(qs))

\* The value of product id at time when qs is the list of quantities.
ValueAt(time, qs, id) == dataPoint(time, products, qs).conc[id]

\* The position of the leading bit of x, and of its last place.
Top(x) == IF x.m = 0 THEN EMin ELSE BitLen(Abs(x.m)) + x.e
UlpExp(x) == Max2(Top(x) - Precision, EMin)

\* x and y differ by at most n units in the last place of the larger.
WithinUlps(x, y, n) ==
    IF x = y THEN TRUE
    ELSE IF ~IsFinite(x) \/ ~IsFinite(y) THEN FALSE
    ELSE LET eu == Max2(UlpExp(x), UlpExp(y))
             lo == Min2(eu, Min2(IF x.m = 0 THEN eu ELSE x.e,
                                 IF y.m = 0 THEN eu ELSE y.e))
             sx == IF x.m = 0 THEN 0 ELSE x.m * (2 ^ (x.e - lo))
             sy == IF y.m = 0 THEN 0 ELSE y.m * (2 ^ (y.e - lo))
         IN  IF Max2(Top(x), Top(y)) - lo > 29 THEN FALSE
             ELSE Abs(sx - sy) <= n * (2 ^ (eu - lo))

\* x / 2^k, correctly rounded.
Halved(x, k) == Round(x.m, x.e - k)

\* A half-life in seconds, when that is a whole number.
WholeSeconds(h) ==
    IF h.e >= 0 THEN TRUE ELSE h.e >= -12 /\ (h.m * Hour) % (2 ^ (-h.e)) = 0
HalfLifeSeconds(h) ==
    IF h.e >= 0 THEN h.m * (2 ^ h.e) * Hour ELSE (h.m * Hour) \div (2 ^ (-h.e))

\* f[1] + ... + f[n], added from the left.
RECURSIVE SumFirst(_, _)
SumFirst(f, n) == IF n = 0 THEN Zero ELSE Add(SumFirst(f, n - 1), f[n])

\* Half-lives after a dose up to which the halving is compared.
MaxHalfLives == 3

(***************************************************************************)
(* C1.  For a window with start <= end the samples are at start + k*step,   *)
(* k = 0 .. floor((end - start) / step), step being the policy's interval:  *)
(* the first is at start, consecutive ones are one step apart and strictly  *)
(* increasing, none is later than end, and the last is end when the step    *)
(* divides the span and otherwise falls short of end by less than a step.   *)
(***************************************************************************)
C1_SampleTimes ==
    Projecting =>
        LET cd == chartData
            step == intervalHours(Span) * Hour
            n == Span \div step
        IN  /\ Len(cd) = n + 1
            /\ \A k \in 0..n : cd[k + 1].time = Window.start + k * step
            /\ cd[1].time = Window.start
            /\ \A i \in 1..(Len(cd) - 1) :
                   /\ cd[i + 1].time - cd[i].time = step
                   /\ cd[i].time < cd[i + 1].time
            /\ \A i \in 1..Len(cd) : cd[i].time <= Window.end
            /\ IF Span % step = 0
               THEN cd[Len(cd)].time = Window.end
               ELSE /\ cd[Len(cd)].time < Window.end
                    /\ Window.end - cd[Len(cd)].time < step

\* A custom window whose span the step does not divide, sampled short of end.
C1_Witness ==
    /\ Projecting
    /\ timeRange = "custom"
    /\ customStartDate # <<>> /\ customEndDate # <<>>
    /\ Span % (intervalHours(Span) * Hour) # 0
    /\ Len(chartData) >= 2
    /\ chartData[1].time = Window.start
    /\ chartData[Len(chartData)].time < Window.end

(***************************************************************************)
(* C2.  The step between samples depends on the span alone: one hour when   *)
(* the span is at most 24 hours, two hours when it is over 24 and at most   *)
(* 168 hours, six hours when it is over 168 hours.                          *)
(***************************************************************************)
C2_IntervalPolicy ==
    (Projecting /\ Len(chartData) >= 2) =>
        LET cd == chartData
            used == cd[2].time - cd[1].time
        IN  /\ Span <= 24 * Hour => used = Hour
            /\ (24 * Hour < Span /\ Span <= 168 * Hour) => used = 2 * Hour
            /\ Span > 168 * Hour => used = 6 * Hour

\* The day range, whose span is exactly 24 hours, sampled every hour.
C2_Witness ==
    /\ Projecting
    /\ timeRange = "day"
    /\ Span = 24 * Hour
    /\ Len(chartData) >= 2
    /\ chartData[2].time - chartData[1].time = Hour

(***************************************************************************)
(* C3, as the code has it.  The number of samples is floor(span/step) + 1:  *)
(* at most 25 for a span of at most 24 hours, at most 85 for a span of at   *)
(* most 168 hours, and one per six hours of span beyond that; the day, week *)
(* and month ranges give 25, 85 and 121 samples.                            *)
(***************************************************************************)
C3_SampleCount ==
    Projecting =>
        LET n == Len(chartData)
        IN  /\ timeRange = "day" => n = 25
            /\ timeRange = "week" => n = 85
            /\ timeRange = "month" => n = 121
            /\ Span <= 24 * Hour => n <= 25
            /\ (24 * Hour < Span /\ Span <= 168 * Hour) => (13 <= n /\ n <= 85)
            /\ Span > 168 * Hour =>
                   /\ n >= 29
                   /\ 6 * Hour * (n - 1) <= Span
                   /\ Span < 6 * Hour * n

\* The month range, 121 samples.
C3_Witness ==
    /\ Projecting
    /\ timeRange = "month"
    /\ Len(chartData) = 121

\* C3 as the specification words it: whatever the range, about 24 to 30
\* samples, taken here as at most 30.
C3_RoughlyBounded ==
    Projecting => Len(chartData) <= 30

(***************************************************************************)
(* C4.  With no products or no quantities the chart data is empty whatever  *)
(* range is selected; otherwise it holds one sample for each instant the    *)
(* loop generates.                                                          *)
(***************************************************************************)
C4_EmptyInputs ==
    IF Len(products) = 0 \/ Len(quantities) = 0
    THEN chartData = <<>>
    ELSE LET cd == chartData
             instants == IF Window.valid
                         THEN timePoints(Window.start, Window.end,
                                         intervalHours(Span) * Hour)
                         ELSE <<>>
         IN  /\ Len(cd) = Len(instants)
             /\ \A i \in 1..Len(instants) : cd[i].time = instants[i]

\* No products, a quantity, the month range selected: no samples.
C4_Witness ==
    /\ Len(products) = 0
    /\ Len(quantities) # 0
    /\ timeRange = "month"
    /\ chartData = <<>>

(***************************************************************************)
(* C5.  A quantity timed after a sample adds nothing to it: the sample's    *)
(* value is the one computed from the quantities timed at or before it, and *)
(* it is 0 for a product all of whose quantities are timed after it.        *)
(***************************************************************************)
C5_FutureDoses ==
    Projecting =>
        LET cd == chartData
        IN  \A i \in 1..Len(cd) :
                LET t == cd[i].time
                    c == cd[i].conc
                    past == SelectSeq(quantities, LAMBDA q : q.timestamp <= t)
                IN  Len(past) < Len(quantities) =>
                        \A id \in DOMAIN c :
                            /\ c[id] = ValueAt(t, past, id)
                            /\ (\A j \in EventsOf(id) : quantities[j].timestamp > t)
                                   => c[id] = Zero

\* A sample between two quantities of a product: the earlier one shows, the
\* later one does not.
C5_Witness ==
    /\ Projecting
    /\ \E i \in 1..Len(chartData) :
           LET t == chartData[i].time
           IN  \E id \in IdsOf(products) :
                   /\ \E j \in EventsOf(id) : quantities[j].timestamp > t
                   /\ \E j \in EventsOf(id) :
                          /\ quantities[j].timestamp <= t
                          /\ chartData[i].conc[id] =
                                 ValueAt(t, <<quantities[j]>>, id)
                   /\ chartData[i].conc[id] # Zero

C9_Superposition ==
    Projecting =>
        LET cd == chartData
        IN  \A i \in 1..Len(cd) :
                LET t == cd[i].time
                    c == cd[i].conc
                IN  \A id \in DOMAIN c :
                        /\ c[id] =
                               MathMax0(SumFirst(
                                   [j \in 1..Len(quantities) |->
                                       ValueAt(t, <<quantities[j]>>, id)],
                                   Len(quantities)))
                        /\ (/\ Len(quantities) = 2
                            /\ EventsOf(id) = {1, 2}
                            /\ quantities[1].timestamp = quantities[2].timestamp) =>
                               WithinUlps(c[id],
                                   ValueAt(t,
                                       <<[quantities[1] EXCEPT !.amount =
                                             Add(quantities[2].amount, @)]>>, id),
                                   4)

\* Two quantities of a product with the same time, and a sample after it
\* where the two together show.
C9_Witness ==
    /\ Projecting
    /\ Len(quantities) = 2
    /\ quantities[1].productId = quantities[2].productId
    /\ quantities[1].productId \in IdsOf(products)
    /\ quantities[1].timestamp = quantities[2].timestamp
    /\ quantities[1].amount # quantities[2].amount
    /\ \E i \in 1..Len(chartData) :
           LET t == chartData[i].time
               id == quantities[1].productId
           IN  /\ t > quantities[1].timestamp
               /\ chartData[i].conc[id] # Zero
               /\ chartData[i].conc[id] =
                      Add(ValueAt(t, <<quantities[2]>>, id),
                          ValueAt(t, <<quantities[1]>>, id))

\* C9 as the specification words it: two quantities of a product with the
\* same time give the same series as one quantity of their summed amounts.
C9_SimultaneousDosesMerge ==
    Projecting =>
        LET cd == chartData
        IN  \A id \in IdsOf(products) :
                (/\ Len(quantities) = 2
                 /\ EventsOf(id) = {1, 2}
                 /\ quantities[1].timestamp = quantities[2].timestamp) =>
                    \A i \in 1..Len(cd) :
                        cd[i].conc[id] =
                            ValueAt(cd[i].time,
                                <<[quantities[1] EXCEPT !.amount =
                                      Add(quantities[2].amount, @)]>>, id)

(***************************************************************************)
(* C10.  A quantity naming no product of the list is ignored: no sample has *)
(* an entry under its productId, and the chart data is what it is with that *)
(* quantity taken out of the list.                                          *)
(***************************************************************************)
C10_DanglingIgnored ==
    \A j \in 1..Len(quantities) :
        quantities[j].productId \notin IdsOf(products) =>
            LET cd == chartData
            IN  /\ \A i \in 1..Len(cd) :
                       quantities[j].productId \notin DOMAIN cd[i].conc
                /\ cd = chartDataOf(products, Without(quantities, j), timeRange,
                                    customStartDate, customEndDate,
                                    customStartTime, customEndTime, now)

\* The part of C10 the code keeps: no sample has an entry under the
\* productId of a dangling quantity, and while another quantity remains in
\* the list the chart data is what it is with the dangling one taken out.
DanglingIgnoredWhileOthersRemain ==
    \A j \in 1..Len(quantities) :
        quantities[j].productId \notin IdsOf(products) =>
            LET cd == chartData
            IN  /\ \A i \in 1..Len(cd) :
                       quantities[j].productId \notin DOMAIN cd[i].conc
                /\ Len(quantities) > 1 =>
                       cd = chartDataOf(products, Without(quantities, j), timeRange,
                                        customStartDate, customEndDate,
                                        customStartTime, customEndTime, now)

(***************************************************************************)
(* C11.  The series of a product depends on that product's half-life and    *)
(* on the quantities that name it, and on nothing else: with two products   *)
(* in the list, every value of a product is the value the projection gives  *)
(* when the list holds that product alone and only the quantities naming    *)
(* it.                                                                      *)
(***************************************************************************)
OwnQuantities(id) == SelectSeq(quantities, LAMBDA q : q.productId = id)

C11_Independence ==
    (Projecting /\ Len(products) >= 2) =>
        LET cd == chartData
        IN  \A i \in 1..Len(cd) : \A id \in IdsOf(products) :
                cd[i].conc[id] =
                    dataPoint(cd[i].time, <<LastWithId(products, id)>>,
                              OwnQuantities(id)).conc[id]

\* Two products of different half-lives, each with a dose of its own before
\* the window: both series are above zero at the first sample and differ.
C11_Witness ==
    /\ Projecting /\ Len(products) = 2 /\ Len(quantities) = 2
    /\ products[1].halfLife # products[2].halfLife
    /\ quantities[1].productId # quantities[2].productId
    /\ LET cd == chartData
       IN  /\ Lt(Zero, cd[1].conc[1])
           /\ Lt(Zero, cd[1].conc[2])
           /\ cd[1].conc[1] # cd[1].conc[2]

(***************************************************************************)
(* C12.  Every sample of a non-empty result has a value for every product   *)
(* of the list and for nothing else, whichever badges of the legend are     *)
(* switched off; a product that has no quantity, or whose quantities are    *)
(* all later than the sample, has the value 0 there.                        *)
(***************************************************************************)
C12_EveryProductInEverySample ==
    LET cd == chartData
    IN  \A i \in 1..Len(cd) :
            /\ DOMAIN cd[i].conc = IdsOf(products)
            /\ \A id \in IdsOf(products) :
                   (\A j \in EventsOf(id) :
                        quantities[j].timestamp > cd[i].time)
                       => cd[i].conc[id] = Zero

\* Two products: the first has no quantity, the second has a dose before the
\* window and one scheduled after it and is switched off in the legend.
C12_Witness ==
    /\ Len(products) = 2 /\ Len(quantities) = 2
    /\ EventsOf(1) = {}
    /\ quantities[1].timestamp # quantities[2].timestamp
    /\ visibleProducts = {1}
    /\ LET cd == chartData
       IN  /\ Len(cd) > 0
           /\ cd[1].conc[1] = Zero
           /\ 2 \in DOMAIN cd[1].conc

(***************************************************************************)
(* C13.  When every product of the list has a half-life above zero, every   *)
(* value of every sample is a number not below 0, whatever the amounts:     *)
(* a sum of contributions that is negative is stored as 0.                  *)
(***************************************************************************)
PositiveHalfLives ==
    \A k \in 1..Len(products) : Lt(Zero, products[k].halfLife)

Rerun ==
    chartDataOf(rendered.products, rendered.quantities, rendered.timeRange,
                rendered.customStartDate, rendered.customEndDate,
                rendered.customStartTime, rendered.customEndTime, now)

CustomWithDates ==
    /\ rendered.timeRange = "custom"
    /\ rendered.customStartDate # <<>>
    /\ rendered.customEndDate # <<>>

SelectionChanged ==
    <<timeRange, customStartDate, customEndDate, customStartTime,
      customEndTime>>' #
    <<timeRange, customStartDate, customEndDate, customStartTime,
      customEndTime>>

C15_InputsUntouched ==
    [][/\ SelectionChanged =>
              /\ rendered' # rendered
              /\ products' = products
              /\ quantities' = quantities
       /\ rendered' # rendered =>
              /\ rendered'.products = products'
              /\ rendered'.quantities = quantities']_vars

\* Two products and two quantities, given in this order to the memo of the
\* month range, which produced its samples.
C15_Witness ==
    /\ timeRange = "month" /\ rendered.timeRange = "month"
    /\ Len(products) = 2 /\ Len(quantities) = 2
    /\ quantities[1] # quantities[2]
    /\ rendered.products = products
    /\ rendered.quantities = quantities
    /\ Len(chartData) > 0

(***************************************************************************)
(* C16.  Whatever the half-lives, the amounts and the window, the loop over *)
(* the sample times is left by its own test and the memo returns a          *)
(* sequence: no sample when a list is empty, a date is invalid or start is  *)
(* after end, and otherwise floor(span / step) + 1 samples, each with a     *)
(* time and, for every product, a value that is a number, an infinity or    *)
(* NaN.                                                                     *)
(***************************************************************************)
IsNumberValue(x) ==
    /\ DOMAIN x = {"m", "e"}
    /\ x.m \in Int /\ x.e \in Int
    /\ (IsNaN(x) \/ IsInf(x) \/ IsFinite(x))

C16_AlwaysASequence ==
    LET cd == chartData
    IN  /\ DOMAIN cd = 1..Len(cd)
        /\ Len(cd) < 2 ^ LoopBits
        /\ Len(cd) = IF Projecting
                     THEN Span \div (intervalHours(Span) * Hour) + 1
                     ELSE 0
        /\ \A i \in 1..Len(cd) :
               /\ cd[i].time \in Int
               /\ DOMAIN cd[i].conc = IdsOf(products)
               /\ \A id \in IdsOf(products) : IsNumberValue(cd[i].conc[id])

\* A product whose half-life is not above zero, with an amount that is not
\* above zero, and a custom window that starts after it ends: no sample.
C16_Witness ==
    /\ Len(products) # 0 /\ Len(quantities) # 0
    /\ ~PositiveHalfLives
    /\ \E j \in 1..Len(quantities) : Leq(quantities[j].amount, Zero)
    /\ Window.valid /\ Window.start > Window.end
    /\ chartData = <<>>

\* The same product and amounts in a window with start before end: the
\* samples are there, with NaN among the values.
C16_GarbageReached ==
    /\ Projecting /\ ~PositiveHalfLives
    /\ LET cd == chartData
       IN  \E i \in 1..Len(cd) : IsNaN(cd[i].conc[3])

(***************************************************************************)
(* C17.  Through product-form submissions and colour changes, every product *)
(* of the list has a half-life above zero; a submission whose half-life     *)
(* field is empty, not a number, zero or negative shows 'Campos requeridos' *)
(* or 'Vida media inválida', does not call onAddProduct and leaves the list *)
(* and the store alone; and a colour change leaves the list with the same   *)
(* ids and half-lives in the same order.                                    *)
(***************************************************************************)
HalfLifeFieldBad(text) ==
    \/ trim(text) = <<>>
    \/ IsNaN(parseFloat(text))
    \/ Leq(parseFloat(text), Zero)

C17_HalfLivesAboveZero ==
    [][/\ \A k \in 1..Len(products') : Lt(Zero, products'[k].halfLife)
       /\ (submitted'.form = "product" /\ HalfLifeFieldBad(submitted'.halfLife))
              => /\ toast' \in {"Vida media inválida", "Campos requeridos"}
                 /\ ~submitted'.called
                 /\ UNCHANGED <<products, stored>>
       /\ submitted'.form = "color"
              => /\ Len(products') = Len(products)
                 /\ \A k \in 1..Len(products) :
                        /\ products'[k].id = products[k].id
                        /\ products'[k].halfLife = products[k].halfLife]_vars

\* Two products of half-lives 24 h and 0.5 h, the second recoloured, and a
\* submission of -3 turned down with 'Vida media inválida'.
C17_Witness ==
    /\ Len(products) = 2
    /\ products[1].halfLife = FromTenths(240)
    /\ products[2].halfLife = FromTenths(5)
    /\ products[2].color = PRODUCT_COLORS[3]
    /\ submitted.form = "product"
    /\ submitted.halfLife = <<"-", "3">>
    /\ ~submitted.called
    /\ toast = "Vida media inválida"

(***************************************************************************)
(* C18.  Through quantity-form submissions, every quantity of the list has  *)
(* an amount above zero; a submission whose amount field is empty, not a    *)
(* number, zero or negative shows 'Campos requeridos' or 'Cantidad          *)
(* inválida', does not call onAddQuantity and leaves the list and the       *)
(* store's quantities alone.                                                *)
(***************************************************************************)
AmountFieldBad(text) ==
    \/ trim(text) = <<>>
    \/ IsNaN(parseFloat(text))
    \/ Leq(parseFloat(text), Zero)

C18_AmountsAboveZero ==
    [][/\ \A j \in 1..Len(quantities') : Lt(Zero, quantities'[j].amount)
       /\ (/\ submitted'.form = "quantity"
           /\ AmountFieldBad(submitted'.amount)
           /\ <<submitted, toast>>' # <<submitted, toast>>)
              => /\ toast' \in {"Cantidad inválida", "Campos requeridos"}
                 /\ ~submitted'.called
                 /\ quantities' = quantities
                 /\ stored' = stored]_vars

\* Quantities of 20 mg and 0.3 mg in the list, and a submission of -5 for a
\* product of the list turned down with 'Cantidad inválida'.
C18_Witness ==
    /\ Len(quantities) = 2
    /\ quantities[1].amount = FromTenths(3)
    /\ quantities[2].amount = FromTenths(200)
    /\ submitted.form = "quantity"
    /\ submitted.productId \in IdsOf(products)
    /\ submitted.amount = <<"-", "5">>
    /\ ~submitted.called
    /\ toast = "Cantidad inválida"

(***************************************************************************)
(* C19.  Whatever the user selects (a fixed range, or a custom range with   *)
(* any start date, start time, end date and end time), the window           *)
(* getTimeRange gives, when its instants are valid dates, has start not     *)
(* after end.  The calendars and the time inputs do not depend on one       *)
(* another: the 16th at 12:30 can be chosen as start with the 16th at       *)
(* 06:00 as end.                                                            *)
(***************************************************************************)
C19_StartNotAfterEnd ==
    (ControlsShown /\ Window.valid) => Window.start <= Window.end

(***************************************************************************)
(* C20.  After any changes to the products, the quantities, the selected    *)
(* range and the custom dates and times, the memo was computed from the     *)
(* current value of each of them, and the chart data in use is the          *)
(* projection of those current values at the instant of that computation.   *)
(***************************************************************************)
C20_NeverStale ==
    /\ rendered.products = products
    /\ rendered.quantities = quantities
    /\ rendered.timeRange = timeRange
    /\ rendered.customStartDate = customStartDate
    /\ rendered.customEndDate = customEndDate
    /\ rendered.customStartTime = customStartTime
    /\ rendered.customEndTime = customEndTime
    /\ chartData = chartDataOf(products, quantities, timeRange,
                               customStartDate, customEndDate,
                               customStartTime, customEndTime, rendered.now)

\* Every input has changed since the mount: two products, quantities, a
\* custom range from the 16th 12:30 to the 17th 06:00, and its samples.
C20_Witness ==
    /\ Len(products) = 2 /\ Len(quantities) = 2
    /\ loading = {}
    /\ timeRange = "custom"
    /\ customStartDate = <<16>> /\ customEndDate = <<17>>
    /\ customStartTime = <<12, 30>> /\ customEndTime = <<6, 0>>
    /\ LET cd == chartData
       IN  /\ Len(cd) = 18
           /\ cd[1].time = Window.start

(***************************************************************************)
(* C21.  The window is laid around the current instant for the fixed        *)
(* ranges: twelve hours either side for day, eighty-four for week, three    *)
(* hundred and sixty for month, sampled every 1, 2 and 6 hours.  A custom   *)
(* range with both dates runs from the start date at the start time, second *)
(* 0, to the end date at the end time, second 59; with a date missing it is *)
(* the week window.  The selection is week until the user changes it.       *)
(***************************************************************************)
C21_WindowBounds ==
    /\ timeRange = "day" =>
           /\ Window.start = now - 12 * 3600
           /\ Window.end = now + 12 * 3600
           /\ intervalHours(Span) = 1
    /\ timeRange = "week" =>
           /\ Window.start = now - 84 * 3600
           /\ Window.end = now + 84 * 3600
           /\ intervalHours(Span) = 2
    /\ timeRange = "month" =>
           /\ Window.start = now - 360 * 3600
           /\ Window.end = now + 360 * 3600
           /\ intervalHours(Span) = 6
    /\ (/\ timeRange = "custom"
        /\ customStartDate # <<>> /\ customEndDate # <<>>
        /\ customStartTime # <<>> /\ customEndTime # <<>>) =>
           /\ Window.valid
           /\ Window.start = customStartDate[1] * 86400
                                + customStartTime[1] * 3600
                                + customStartTime[2] * 60
           /\ Window.end = customEndDate[1] * 86400
                              + customEndTime[1] * 3600
                              + customEndTime[2] * 60 + 59
    /\ (timeRange = "custom" /\ (customStartDate = <<>> \/ customEndDate = <<>>)) =>
           /\ Window.start = now - 84 * 3600
           /\ Window.end = now + 84 * 3600
    /\ ~ControlsShown /\ Len(stored.products) = 0 => timeRange = "week"

\* An hour after the mount, the custom range from the 16th at 12:30 to the
\* 17th at 06:00.
C21_Witness ==
    /\ now > Now0
    /\ timeRange = "custom"
    /\ customStartDate = <<16>> /\ customEndDate = <<17>>
    /\ customStartTime = <<12, 30>> /\ customEndTime = <<6, 0>>
    /\ Window.start = 16 * Day + 12 * Hour + 30 * 60
    /\ Window.end = 17 * Day + 6 * Hour + 59


\* C22: while the user may not edit (canEdit false), a submission of the
\* product form, of a colour, of the quantity form or of the password form
\* shows 'Acceso denegado' and calls none of onAddProduct, onUpdateProduct,
\* onAddQuantity and changePassword; the store, the lists and the passwords
\* stay as they were.
C22_DeniedWithoutPermission ==
    [][~canEdit =>
          /\ stored' = stored
          /\ passwords' = passwords
          /\ (toast' # toast \/ submitted' # submitted) =>
                 /\ toast' = "Acceso denegado"
                 /\ submitted'.form \in {"product", "color", "quantity",
                                         "password"}
                 /\ ~submitted'.called
                 /\ listVars' = listVars]_vars

\* A visitor is signed in, a colour was picked for a product of the list,
\* and the form turned it down.
C22_Witness ==
    /\ user # NoUser
    /\ ~canEdit
    /\ Len(products) > 0
    /\ submitted.form = "color"
    /\ ~submitted.called
    /\ toast = "Acceso denegado"

\* A step of one of the forms of the lists: neither a load being answered nor
\* a step of the AuthProvider.
FormStep == loading' = loading /\ authVars' = authVars /\ now' = now

\* C23: the forms report the true outcome.  A submission that reached the
\* dashboard shows its success toast only if the product or quantity joined
\* the list, or the colour of the product changed in it, and a submission the
\* store turned down leaves the list as it was and does not show the success
\* toast.
C23_TrueOutcome ==
    [][(FormStep /\ submitted'.form \in {"product", "color", "quantity"}
          /\ submitted'.called) =>
          /\ submitted'.form = "product" =>
                (toast' = "Producto agregado"
                     <=> Len(products') = Len(products) + 1)
          /\ submitted'.form = "quantity" =>
                (toast' = "Cantidad registrada"
                     <=> Len(quantities') = Len(quantities) + 1)
          /\ submitted'.form = "color" =>
                (toast' = "Color actualizado"
                     <=> \E k \in 1..Len(products') :
                            /\ products'[k].id = submitted'.productId
                            /\ products'[k].color = submitted'.color
                            /\ stored'.products[products'[k].id].color
                                   = submitted'.color)]_vars

\* C24: the timestamp the quantity form passes to onAddQuantity is the
\* instant its preview line announces, for every combination of a chosen or
\* missing date and a chosen or missing time; with a date and no time, it is
\* the current time of day on the chosen date.
C24_RecordedAsAnnounced ==
    [][(FormStep /\ submitted'.form = "quantity"
          /\ Len(quantities') = Len(quantities) + 1) =>
          quantities'[1].timestamp
              = previewTimestamp(submitted'.date, submitted'.time)]_vars

\* A submission of the login form.
LoginStep ==
    /\ loginOpen
    /\ submitted'.form = "login"
    /\ passwords' = passwords
    /\ (toast' # toast \/ submitted' # submitted \/ loginOpen' # loginOpen)

\* C25: under each revision of the AuthProvider, a submission of the login
\* form with credentials that are turned down shows 'Error de autenticación'
\* and leaves the dialog open, and one with credentials that are accepted
\* shows 'Login exitoso' and closes the dialog.
C25_LoginOutcome ==
    [][LoginStep =>
          IF LoginAccepted(submitted'.email, submitted'.password)
          THEN toast' = "Login exitoso" /\ ~loginOpen'
          ELSE toast' = "Error de autenticación" /\ loginOpen']_vars

\* Nothing of the AuthProvider is pending: no timer, no profile request, and
\* getSession() has been answered.
AuthQuiet == timers = EmptyBag /\ fetches = EmptyBag /\ ~sessionCheck

\* C26: a signed-out client never ends up with a user.  Once the latest
\* session is null, the listener has been told, and every pending profile
\* fetch has completed, user is null.
C26_SignedOutHasNoUser ==
    (authSession = 0 /\ session = 0 /\ AuthQuiet) => user = NoUser

\* C27: edit permission is granted to the designated administrator only.
\* After any sign-ups and any updates of profiles that the policies permit,
\* a profile has can_edit = true only if it is the one handle_new_user made
\* for the administrator's e-mail.
C27_OnlyAdminCanEdit ==
    \A u \in UserIds :
        (profiles[u] # NoProfile /\ profiles[u].can_edit)
            => profiles[u].email = ADMIN_EMAIL

\* The tables of the products and of the quantities, under either name.
DataTables == {"medications", "products", "doses", "quantities"}
WriteCommands == {"INSERT", "UPDATE", "DELETE"}

\* No migration is half applied.
BetweenMigrations ==
    \/ applied = 0
    \/ applied = Len(Statements)
    \/ Statements[applied].m # Statements[applied + 1].m

\* On every table of the products and quantities, a client without a user id
\* may not insert, update or delete, and a client with one may.
OnlyAuthenticatedWrite ==
    \A table \in DataTables \cap db.tables, cmd \in WriteCommands,
       rowId \in {1, 2} :
        /\ ~Permitted(db, 0, cmd, table, rowId)
        /\ \A uid \in UserIds : Permitted(db, uid, cmd, table, rowId)

\* C29: only authenticated users can write, at every point of the migration
\* history, and every DROP POLICY names a policy that exists when it runs.
\* After each migration, on each of the tables medications/products and
\* doses/quantities, a client with no user id can neither insert, update nor
\* delete a row and a client with one can do each.
C29_WritesNeedAuthentication ==
    [][applied' = applied + 1 =>
          /\ Statements[applied'].op = "drop policy" =>
                 PolicyNamed(db, Statements[applied']) # {}
          /\ BetweenMigrations' => OnlyAuthenticatedWrite']_vars

\* All five migrations are applied: products and quantities exist, each with
\* its four policies, and an account has signed up.
C29_Witness ==
    /\ applied = Len(Statements)
    /\ db.tables = {"products", "quantities", "profiles"}
    /\ Cardinality({p \in db.policies : p.table = "quantities"}) = 4
    /\ Cardinality({p \in db.policies : p.table = "products"}) = 4
    /\ \E u \in UserIds : profiles[u] # NoProfile
    /\ OnlyAuthenticatedWrite

\* No id is twice in the list.
DistinctIds(list) ==
    \A i \in 1..Len(list), j \in 1..Len(list) :
        list[i].id = list[j].id => i = j

\* C28: an item that was added is never lost from the local list, and the
\* list never holds an id twice.  Every product and every quantity of the
\* local lists is still there after any step, the answer of a load that was
\* in flight included.
C28_AddedStays ==
    [][/\ IdsOf(products) \subseteq IdsOf(products')
       /\ IdsOf(quantities) \subseteq IdsOf(quantities')
       /\ DistinctIds(products')
       /\ DistinctIds(quantities')]_vars

\* C28, its second half alone: the list of products never holds an id
\* twice.
C28_NoIdTwice == DistinctIds(products)

\* The products the chart draws a line for.
Plotted ==
    {products[k].id : k \in {i \in 1..Len(products) :
                                 products[i].id \in visibleProducts}}

\* C30: the plotted products are products of the list, and every step either
\* leaves them alone, or is a change of the list (a load, an add, a colour
\* update), after which every product is plotted, or is a click on the badge
\* of one product, which flips that product and no other.  For every product
\* of the list, the click's updater flips the membership of that id only,
\* and applied twice it gives the set back.  By induction the plotted
\* products are those of the list that were clicked an even number of times
\* since the list last changed.
C30_PlottedProducts ==
    [][/\ Plotted' \subseteq IdsOf(products')
       /\ \/ Plotted' = IdsOf(products')
          \/ /\ products' = products
             /\ \/ Plotted' = Plotted
                \/ \E id \in IdsOf(products) :
                      /\ (id \in Plotted') # (id \in Plotted)
                      /\ Plotted' \ {id} = Plotted \ {id}
       /\ products' # products => Plotted' = IdsOf(products')
       /\ \A id \in IdsOf(products) :
              LET once == toggled(visibleProducts, id)
              IN  /\ (id \in once) # (id \in visibleProducts)
                  /\ once \ {id} = visibleProducts \ {id}
                  /\ toggled(once, id) = visibleProducts]_vars

\* Both products are in the list, the first was hidden by a click and the
\* second is plotted.
C30_Witness ==
    /\ IdsOf(products) = {1, 2}
    /\ Plotted = {2}

==========================================================================
